---------------------------- MODULE Spec2Model ----------------------------
(***************************************************************************)
(* A model of the two state machines of the repository:                    *)
(*   - VADManager   (src/src/lib/vadManager.ts): speech buffering and the  *)
(*     decision to emit a chunk;                                           *)
(*   - ApiKeyManager (src/unnamed/part_003): the credential pool, its      *)
(*     rotation, error classification and cooldown expiry.                 *)
(* Times are milliseconds.  Amplitudes are integers in units of 0.0001, so *)
(* the default silenceThreshold 0.0001 is 1.                               *)
(***************************************************************************)
EXTENDS Integers, Sequences, FiniteSets, TLC

\* ------------------------------------------------------------------ bounds
\* The wall clock of the detector advances at most this many times.
MaxTicks == 4
\* The same, where a whole utterance is fed (FeedSpec).
FeedTicks == 7
\* chunksSent is capped: no operation that may emit runs once it has reached this.
MaxChunks == 2
\* audioBuffer is capped: processAudio is not called once it holds this many windows.
MaxWindows == 4
\* The same, where a whole utterance is fed (FeedSpec).
FeedWindows == 8

\* addKey is called at most this many times (the largest pool).
MaxKeys == 2
\* totalCalls is capped: no selection runs once it has reached this.
MaxCalls == 3
\* The same two, where no error is reported (RotateSpec).
RotateKeys == 3
RotateCalls == 5
\* The cap on totalCalls where requests fail over and over (FailSpec).
FailCalls == 4
\* The same, where every kind of error is reported (ClassifySpec).
ClassifyCalls == 2
\* The same, where keys are probed (ProbeSpec), and the number of
\* getNextWorkingKeyFast calls made there.
ProbeCalls == 2
MaxProbes == 2
\* The cap on totalCalls where keys are probed while requests fail (ProbeFailSpec).
ProbeFailCalls == 1
\* The detector's clock advances at most this many times where state
\* listeners are subscribed (ListenSpec).
ListenTicks == 1

\* The clock under adjustment: the ticks it may reach, the times it may step
\* back, the windows buffered.
SkewTicks == 3
MaxStepsBack == 1
SkewWindows == 2
\* The largest pool, the cap on totalCalls and the number of
\* getNextWorkingKeyFast calls where getNextKey is called over and over while
\* keys are probed and removed (StarveSpec).

\* The longest tick stream the two entry points are compared on.
EquivTicks == 5

\* The most credentials the old-format record holds.
MaxLegacy == 3

\* The longest key text maskKey is given.
MaxKeyLen == 10

StarveKeys == 3
StarveCalls == 1
StarveProbes == 1
\* failCount is capped: no error is reported on a key that has reached this.
MaxFails == 3
\* The key manager's clock advances by a short cooldown at most this many times.
MaxWaits == 1

\* The wall clock (Date.now()) when the model starts; it is never 0.
Epoch == 1000
\* The wall clock advances in steps of this many milliseconds; any number of
\* steps, none included, may pass between two calls.
Deltas == {500}

Max(a, b) == IF a >= b THEN a ELSE b
Min(a, b) == IF a <= b THEN a ELSE b

VARIABLES
    \* --- VADManager
    clock,            \* Date.now()
    config,           \* VADManager.config
    state,            \* VADManager.state (VADState)
    audioBuffer,      \* VADManager.audioBuffer: the number of buffered windows
    bufferStartTime,  \* VADManager.bufferStartTime
    lastUpdateTime,   \* VADManager.lastUpdateTime
    \* --- what the detector's callers observe
    op,               \* the operation that ran last
    delivered,        \* the chunks that operation gave to the chunk listeners
    feed,             \* the sample stream fed since start(), while it is speech then silence
    span,             \* the span of speech open since the last emission or reset
    vadListener,      \* the values a state listener of the detector holds
    snapshots,        \* the states that operation called the state listeners with
    stepsBack,        \* the times Date.now() returned less than it had before
    \* --- ApiKeyManager
    keys,             \* state.keys, in pool order
    currentIndex,     \* state.currentIndex (0-based, as in the source)
    shuffleMode,      \* state.shuffleMode
    totalCalls,       \* state.totalCalls
    nextId,           \* the ids handed out so far (ids are unique)
    stored,           \* what localStorage holds under STORAGE_KEY and STATE_KEY
    \* --- what the key manager's callers observe
    ret,              \* what the last key manager operation was given and returned
    rotation,         \* the keys returned by getNextKey calls made in a row
    waiting,          \* per key, the getNextKey calls in a row that passed it over
    everCooled,       \* the ids of the keys that were ever given a cooldown timestamp
    probe,            \* the getNextWorkingKeyFast call in progress, or its result
    keyListener,      \* the values a state listener of the key manager holds
    boot              \* the constructor's loadState: where it is, and the old-format record

\* The detector's own variables, and the key manager's.
vadOnly == <<config, state, audioBuffer, bufferStartTime, lastUpdateTime,
             delivered, feed, span, vadListener, snapshots, stepsBack>>
keyVars == <<keys, currentIndex, shuffleMode, totalCalls, nextId, stored, ret,
             rotation, waiting, everCooled, probe, keyListener, boot>>
vars == <<clock, op, vadOnly, keyVars>>

\* ------------------------------------------------------------ VADManager
\* The default configuration of the class.
DefaultConfig ==
    [minSpeechDuration |-> 1000, silenceThreshold |-> 1, silenceDuration |-> 2000,
     minChunkDuration |-> 1000, maxChunkDuration |-> 30000]

\* A configuration a user may store: short durations, same threshold.
ShortConfig ==
    [minSpeechDuration |-> 500, silenceThreshold |-> 1, silenceDuration |-> 500,
     minChunkDuration |-> 1000, maxChunkDuration |-> 1500]

\* The configurations setConfig and loadConfig are given.
Configs == {DefaultConfig, ShortConfig}

\* A configuration whose minimal durations are all 0 (any duration >= 0 may
\* be stored), and the configurations with it.
ZeroConfig ==
    [minSpeechDuration |-> 0, silenceThreshold |-> 1, silenceDuration |-> 0,
     minChunkDuration |-> 0, maxChunkDuration |-> 1500]
AnyConfigs == Configs \cup {ZeroConfig}

\* The sample windows processAudio is given: empty, silent, at the threshold, loud.
Windows == {<<>>, <<0, 0>>, <<1, -1>>, <<3, -3>>}

\* The volume levels processVolume is given: silent, at the threshold, loud.
Volumes == {0, 1, 5}

\* NaN among the volume levels, which are >= 0 otherwise; and v > t as
\* JavaScript computes it: false whenever v is NaN.
NaN == -1
Above(v, t) == v # NaN /\ v > t

\* The initial VADState of the class, which reset() restores.
InitialState ==
    [isSpeaking |-> FALSE, silenceDuration |-> 0, speechDuration |-> 0,
     bufferDuration |-> 0, chunksSent |-> 0, totalSpeechTime |-> 0,
     totalSilenceTime |-> 0, status |-> "idle"]

\* The manager as one value, so that the statements of a method compose.
\* chunks collects what the chunk listeners are called with; notified tells
\* that the state listeners were called, snapshots with what, replaced that
\* this.state was assigned a new object.
Manager ==
    [config |-> config, state |-> state, audioBuffer |-> audioBuffer,
     bufferStartTime |-> bufferStartTime, lastUpdateTime |-> lastUpdateTime,
     chunks |-> <<>>, notified |-> FALSE, snapshots |-> <<>>, replaced |-> FALSE]

\* notifyListeners of either class: every state listener is called.
notifyListeners(m) == [m EXCEPT !.notified = TRUE]

\* VADManager.notifyListeners: every state listener is called with a copy of
\* this.state as it is at the call.
notifyStateListeners(m) ==
    [notifyListeners(m) EXCEPT !.snapshots = Append(@, m.state)]

RECURSIVE SumSq(_)
SumSq(w) == IF w = <<>> THEN 0 ELSE Head(w) * Head(w) + SumSq(Tail(w))

\* calculateRMS(samples) > threshold, for a threshold >= 0: sqrt(sum / n) > t
\* iff sum > t * t * n.  An empty window gives 0 / 0 = NaN, and NaN > t is false.
RmsAbove(samples, threshold) ==
    /\ Len(samples) > 0
    /\ SumSq(samples) > threshold * threshold * Len(samples)

resetBuffer(m) ==
    [m EXCEPT !.audioBuffer = 0,
              !.state.bufferDuration = 0,
              !.state.speechDuration = 0,
              !.state.silenceDuration = 0,
              !.bufferStartTime = 0,
              !.state.status = "idle"]

\* The chunk sendChunk builds; speechRatio is kept as <<numerator, denominator>>.
\* mergeBuffers concatenates the windows: the payload is kept as their number.
MakeChunk(m, now) ==
    [startTime |-> m.bufferStartTime,
     endTime |-> now,
     duration |-> m.state.bufferDuration,
     speechRatio |-> <<m.state.speechDuration, Max(1, m.state.bufferDuration)>>,
     samples |-> m.audioBuffer]

\* sendChunk with its guard removed: every call emits.
sendChunkUnguarded(m, now) ==
    resetBuffer([m EXCEPT !.state.chunksSent = @ + 1,
                          !.state.status = "sending",
                          !.chunks = Append(@, MakeChunk(m, now))])

\* sendChunk clearing the buffer before it builds the chunk.
sendChunkLate(m, now) ==
    IF m.state.bufferDuration < m.config.minChunkDuration
    THEN m
    ELSE LET r == resetBuffer(m)
         IN  [r EXCEPT !.state.chunksSent = @ + 1,
                       !.chunks = Append(@, MakeChunk(r, now))]

sendChunk(m, now) ==
    IF m.state.bufferDuration < m.config.minChunkDuration
    THEN m
    ELSE resetBuffer([m EXCEPT !.state.chunksSent = @ + 1,
                               !.state.status = "sending",
                               !.chunks = Append(@, MakeChunk(m, now))])

checkSendConditions(m, now) ==
    LET shouldSend ==
            \/ /\ m.state.speechDuration >= m.config.minSpeechDuration
               /\ m.state.silenceDuration >= m.config.silenceDuration
            \/ m.state.bufferDuration >= m.config.maxChunkDuration
    IN  IF shouldSend /\ m.state.bufferDuration >= m.config.minChunkDuration
        THEN sendChunk(m, now)
        ELSE m

\* processAudio buffering every silent window, open buffer or not.
processAudioBodyGreedy(m, samples, now) ==
    LET deltaTime == IF m.lastUpdateTime # 0 THEN now - m.lastUpdateTime ELSE 0
        speaking == RmsAbove(samples, m.config.silenceThreshold)
        m1 == [m EXCEPT !.lastUpdateTime = now, !.state.isSpeaking = speaking]
    IN  IF speaking
        THEN LET start == IF m1.audioBuffer = 0 THEN now ELSE m1.bufferStartTime
             IN  [m1 EXCEPT !.state.speechDuration = @ + deltaTime,
                            !.state.totalSpeechTime = @ + deltaTime,
                            !.state.silenceDuration = 0,
                            !.bufferStartTime = start,
                            !.audioBuffer = @ + 1,
                            !.state.bufferDuration = now - start,
                            !.state.status = "buffering"]
        ELSE [m1 EXCEPT !.state.silenceDuration = @ + deltaTime,
                        !.state.totalSilenceTime = @ + deltaTime,
                        !.audioBuffer = @ + 1,
                        !.state.bufferDuration = now - m1.bufferStartTime]

\* processAudio up to its call of checkSendConditions.
processAudioBody(m, samples, now) ==
    LET deltaTime == IF m.lastUpdateTime # 0 THEN now - m.lastUpdateTime ELSE 0
        speaking == RmsAbove(samples, m.config.silenceThreshold)
        m1 == [m EXCEPT !.lastUpdateTime = now, !.state.isSpeaking = speaking]
    IN  IF speaking
        THEN LET start == IF m1.audioBuffer = 0 THEN now ELSE m1.bufferStartTime
             IN  [m1 EXCEPT !.state.speechDuration = @ + deltaTime,
                            !.state.totalSpeechTime = @ + deltaTime,
                            !.state.silenceDuration = 0,
                            !.bufferStartTime = start,
                            !.audioBuffer = @ + 1,
                            !.state.bufferDuration = now - start,
                            !.state.status = "buffering"]
        ELSE LET m2 == [m1 EXCEPT !.state.silenceDuration = @ + deltaTime,
                                  !.state.totalSilenceTime = @ + deltaTime]
             IN  IF m2.state.bufferDuration > 0
                 THEN [m2 EXCEPT !.audioBuffer = @ + 1,
                                 !.state.bufferDuration = now - m2.bufferStartTime]
                 ELSE m2

\* processAudio notifying the state listeners before checkSendConditions.
processAudioEarly(m, samples, now) ==
    checkSendConditions(notifyStateListeners(processAudioBody(m, samples, now)), now)

processAudio(m, samples, now) ==
    notifyStateListeners(checkSendConditions(processAudioBody(m, samples, now), now))

\* processVolume up to its call of checkSendConditions.
processVolumeBody(m, volume, now) ==
    LET deltaTime == IF m.lastUpdateTime # 0 THEN now - m.lastUpdateTime ELSE 16
        speaking == Above(volume, m.config.silenceThreshold)
        m1 == [m EXCEPT !.lastUpdateTime = now, !.state.isSpeaking = speaking]
    IN  IF speaking
        THEN LET start == IF m1.state.bufferDuration = 0 THEN now
                          ELSE m1.bufferStartTime
             IN  [m1 EXCEPT !.state.speechDuration = @ + deltaTime,
                            !.state.totalSpeechTime = @ + deltaTime,
                            !.state.silenceDuration = 0,
                            !.bufferStartTime = start,
                            !.state.bufferDuration = now - start,
                            !.state.status = "buffering"]
        ELSE LET m2 == [m1 EXCEPT !.state.silenceDuration = @ + deltaTime,
                                  !.state.totalSilenceTime = @ + deltaTime]
             IN  IF m2.state.bufferDuration > 0
                 THEN [m2 EXCEPT !.state.bufferDuration = now - m2.bufferStartTime]
                 ELSE m2

processVolume(m, volume, now) ==
    notifyStateListeners(checkSendConditions(processVolumeBody(m, volume, now), now))

\* One capture tick through either entry point: a window or a volume level of
\* the classification wanted (loud, or silent).
processTick(m, entry, speaking, now) ==
    IF entry = "audio"
    THEN processAudio(m, IF speaking THEN <<3, -3>> ELSE <<0, 0>>, now)
    ELSE processVolume(m, IF speaking THEN 5 ELSE 0, now)

\* What a caller sees of the manager after a tick: the state fields, and the
\* durations of the chunks the tick emitted.
Seen(m) ==
    [isSpeaking |-> m.state.isSpeaking,
     speechDuration |-> m.state.speechDuration,
     silenceDuration |-> m.state.silenceDuration,
     bufferDuration |-> m.state.bufferDuration,
     emitted |-> [i \in 1..Len(m.chunks) |-> m.chunks[i].duration]]

\* The manager after the first of the ticks, which comes delta after now.
AfterTick(m, entry, tick, now) ==
    processTick([m EXCEPT !.chunks = <<>>], entry, tick.speaking, now + tick.delta)

\* What is seen after every tick of a stream fed through one entry point.
RECURSIVE SeenOver(_, _, _, _)
SeenOver(m, entry, ticks, now) ==
    IF ticks = <<>> THEN <<>>
    ELSE <<Seen(AfterTick(m, entry, Head(ticks), now))>>
         \o SeenOver(AfterTick(m, entry, Head(ticks), now), entry, Tail(ticks),
                     now + Head(ticks).delta)

\* stop with the comparison made strict.
stopStrict(m, now) ==
    LET m1 == IF m.state.bufferDuration > m.config.minChunkDuration
              THEN sendChunk(m, now)
              ELSE m
    IN  [m1 EXCEPT !.state.status = "idle"]

stop(m, now) ==
    LET m1 == IF m.state.bufferDuration >= m.config.minChunkDuration
              THEN sendChunk(m, now)
              ELSE m
    IN  [m1 EXCEPT !.state.status = "idle"]

reset(m) ==
    [resetBuffer(m) EXCEPT !.state = InitialState, !.lastUpdateTime = 0,
                           !.replaced = TRUE]

start(m) == [reset(m) EXCEPT !.state.status = "idle"]

\* forceFlush sending whatever is buffered, however short.
forceFlushAlways(m, now) ==
    IF m.audioBuffer > 0 \/ m.state.bufferDuration > 0
    THEN sendChunkUnguarded(m, now)
    ELSE m

forceFlush(m, now) ==
    IF m.audioBuffer > 0 \/ m.state.bufferDuration > 0
    THEN sendChunk(m, now)
    ELSE m

setConfig(m, partial) == [m EXCEPT !.config = partial]

\* --------------------------------------------------------- ApiKeyManager
RATE_LIMIT_COOLDOWN_MS == 60000
QUOTA_EXHAUSTED_COOLDOWN_MS == 3600000
MAX_FAIL_COUNT == 3

\* null and undefined timestamps are 0: the code tests them by truthiness, and
\* no timestamp it stores is 0.
NoTime == 0
\* find() that finds nothing, getNextKey() that returns null.
NoKey == 0

\* The errors handleError is given: the status code, and whether the message
\* contains "rate limit" and "quota" (case-insensitively).
Error(code, rateLimitText, quotaText) ==
    [code |-> code, rateLimitText |-> rateLimitText, quotaText |-> quotaText]
RateLimitError == Error(429, TRUE, FALSE)
Errors ==
    {RateLimitError, Error(0, FALSE, TRUE), Error(401, FALSE, FALSE),
     Error(500, FALSE, FALSE), Error(0, FALSE, FALSE)}
\* Every pairing of a status code (0: none was received) with a message.
StatusCodes == {0, 401, 403, 429, 500, 599}
AllErrors ==
    {Error(code, rl, q) : code \in StatusCodes, rl \in BOOLEAN, q \in BOOLEAN}

\* The key addKey builds (secret, name, lastUsed and lastError are not read by
\* any decision and are left out).
NewKey(id, first) ==
    [id |-> id, isActive |-> first, isPrimary |-> first, rateLimited |-> FALSE,
     rateLimitedUntil |-> NoTime, failCount |-> 0, isDisabled |-> FALSE,
     usageCount |-> 0, cooldownUntil |-> NoTime]

\* The manager's state as one value, with the store it writes to.
Pool ==
    [keys |-> keys, currentIndex |-> currentIndex, shuffleMode |-> shuffleMode,
     totalCalls |-> totalCalls, stored |-> stored, notified |-> FALSE]

\* What the two entries of the store hold: the key list, and the rotation
\* counters.  JSON.stringify and JSON.parse give back these fields as they were
\* (an undefined cooldownUntil is left out and read back as undefined).
Saved(p) ==
    [keys |-> p.keys, currentIndex |-> p.currentIndex, shuffleMode |-> p.shuffleMode,
     totalCalls |-> p.totalCalls]
\* What loadState reads from a store that holds neither entry.
EmptyStore ==
    [keys |-> <<>>, currentIndex |-> 0, shuffleMode |-> FALSE, totalCalls |-> 0]

saveState(p) == [p EXCEPT !.stored = Saved(p)]

Indices(ks) == 1..Len(ks)
\* findIndex / find: the first position satisfying Test, or NoKey.
FirstIndex(ks, Test(_)) ==
    IF \E i \in Indices(ks) : Test(ks[i])
    THEN CHOOSE i \in Indices(ks) :
             Test(ks[i]) /\ \A j \in 1..(i - 1) : ~Test(ks[j])
    ELSE NoKey
IndexOfId(ks, id) == LET Is(k) == k.id = id IN FirstIndex(ks, Is)

\* A key text is the sequence of its characters; the characters key texts
\* are made of here, and the bullet of the mask.
KeyChars == {"A", "z"}
Bullet == "*"
KeyTexts == UNION {[1..n -> KeyChars] : n \in 0..MaxKeyLen}

\* "\u2022" eight times.
Bullets == [i \in 1..8 |-> Bullet]

\* key.slice(0, 4) and key.slice(-4).
SliceFirst4(key) == SubSeq(key, 1, Min(4, Len(key)))
SliceLast4(key) == SubSeq(key, Max(1, Len(key) - 3), Len(key))

\* maskKey revealing the ends of every key longer than 7 characters.
maskKeyEager(key) ==
    IF Len(key) < 8 THEN Bullets
    ELSE SliceFirst4(key) \o Bullets \o SliceLast4(key)

maskKey(key) ==
    IF Len(key) <= 8 THEN Bullets
    ELSE SliceFirst4(key) \o Bullets \o SliceLast4(key)

\* What isRateLimited returns.
isRateLimited(key, now) ==
    /\ key.rateLimited
    /\ key.rateLimitedUntil # NoTime
    /\ now < key.rateLimitedUntil

\* What isRateLimited writes: an expired cooldown is cleared on the way.
isRateLimitedWrites(key, now) ==
    IF key.rateLimited /\ key.rateLimitedUntil # NoTime /\ now >= key.rateLimitedUntil
    THEN [key EXCEPT !.rateLimited = FALSE,
                     !.rateLimitedUntil = NoTime,
                     !.failCount = 0,
                     !.isDisabled = IF @ /\ ~key.isPrimary THEN FALSE ELSE @]
    ELSE key

\* The filter of getNextKey, getCurrentKey and getNextWorkingKeyFast.
Available(key, now) == ~key.isDisabled /\ ~isRateLimited(key, now)

\* refreshKeyStates on one key, with the expiry test made strict.
refreshKeyLate(key, now) ==
    LET k1 == IF key.rateLimitedUntil # NoTime /\ now > key.rateLimitedUntil
              THEN [key EXCEPT !.rateLimited = FALSE, !.rateLimitedUntil = NoTime,
                               !.failCount = 0, !.isDisabled = FALSE]
              ELSE key
        k2 == IF k1.cooldownUntil # NoTime /\ now > k1.cooldownUntil
              THEN [k1 EXCEPT !.cooldownUntil = NoTime, !.failCount = 0,
                              !.isDisabled = FALSE]
              ELSE k1
    IN  IF /\ k2.isDisabled /\ ~k2.rateLimited
           /\ k2.rateLimitedUntil = NoTime /\ k2.cooldownUntil = NoTime
        THEN [k2 EXCEPT !.isDisabled = FALSE, !.failCount = 0]
        ELSE k2

\* refreshKeyStates on one key without its third test: a key disabled with no
\* cooldown stays disabled.
refreshKeyKeep(key, now) ==
    LET k1 == IF key.rateLimitedUntil # NoTime /\ now >= key.rateLimitedUntil
              THEN [key EXCEPT !.rateLimited = FALSE, !.rateLimitedUntil = NoTime,
                               !.failCount = 0, !.isDisabled = FALSE]
              ELSE key
    IN  IF k1.cooldownUntil # NoTime /\ now >= k1.cooldownUntil
        THEN [k1 EXCEPT !.cooldownUntil = NoTime, !.failCount = 0,
                        !.isDisabled = FALSE]
        ELSE k1

\* refreshKeyStates on one key: its three tests, in order.
refreshKey(key, now) ==
    LET k1 == IF key.rateLimitedUntil # NoTime /\ now >= key.rateLimitedUntil
              THEN [key EXCEPT !.rateLimited = FALSE, !.rateLimitedUntil = NoTime,
                               !.failCount = 0, !.isDisabled = FALSE]
              ELSE key
        k2 == IF k1.cooldownUntil # NoTime /\ now >= k1.cooldownUntil
              THEN [k1 EXCEPT !.cooldownUntil = NoTime, !.failCount = 0,
                              !.isDisabled = FALSE]
              ELSE k1
    IN  IF /\ k2.isDisabled /\ ~k2.rateLimited
           /\ k2.rateLimitedUntil = NoTime /\ k2.cooldownUntil = NoTime
        THEN [k2 EXCEPT !.isDisabled = FALSE, !.failCount = 0]
        ELSE k2

\* The end of refreshKeyStates, given the keys as its loop leaves them.
keysRefreshed(p, refreshed) ==
    IF refreshed # p.keys
    THEN notifyListeners(saveState([p EXCEPT !.keys = refreshed]))
    ELSE p

\* refreshKeyStates: when a key was changed the store is written and the
\* listeners are called.
refreshKeyStates(p, now) ==
    keysRefreshed(p, [i \in Indices(p.keys) |-> refreshKey(p.keys[i], now)])

\* addKey marking every key it appends as the primary.
addKeyAllPrimary(p, id) ==
    notifyListeners(saveState([p EXCEPT !.keys = Append(@, [NewKey(id, Len(p.keys) = 0)
                                               EXCEPT !.isPrimary = TRUE])]))

addKey(p, id) ==
    notifyListeners(saveState([p EXCEPT !.keys = Append(@, NewKey(id, Len(p.keys) = 0))]))

\* removeKey without the promotion of the first remaining key.
removeKeyNoPromote(p, id) ==
    LET index == IndexOfId(p.keys, id)
        rest == SelectSeq(p.keys, LAMBDA k : k.id # id)
    IN  IF index = NoKey THEN p
        ELSE notifyListeners(saveState(
                 [p EXCEPT !.keys = rest,
                           !.currentIndex = IF @ >= Len(rest)
                                            THEN Max(0, Len(rest) - 1) ELSE @]))

removeKey(p, id) ==
    LET index == IndexOfId(p.keys, id)
        wasPrimary == p.keys[index].isPrimary
        rest == SelectSeq(p.keys, LAMBDA k : k.id # id)
        promoted == IF wasPrimary /\ Len(rest) > 0
                    THEN [rest EXCEPT ![1].isPrimary = TRUE]
                    ELSE rest
    IN  IF index = NoKey THEN p
        ELSE notifyListeners(saveState(
                 [p EXCEPT !.keys = promoted,
                           !.currentIndex = IF @ >= Len(rest)
                                            THEN Max(0, Len(rest) - 1) ELSE @]))

\* The end of getNextKey with the index left on the key returned.
selectKeyInPlace(p, nextIndex) ==
    notifyListeners(saveState(
    [p EXCEPT !.currentIndex = nextIndex - 1,
              !.keys = [i \in Indices(p.keys) |->
                           IF i = nextIndex
                           THEN [p.keys[i] EXCEPT !.usageCount = @ + 1,
                                                  !.isActive = TRUE]
                           ELSE [p.keys[i] EXCEPT !.isActive = FALSE]],
              !.totalCalls = @ + 1]))

\* The end of getNextKey ("Update state"): nextIndex is the 1-based position of
\* the key chosen, so the 0-based index one past it is nextIndex % length.
selectKey(p, nextIndex) ==
    notifyListeners(saveState(
    [p EXCEPT !.currentIndex = nextIndex % Len(p.keys),
              !.keys = [i \in Indices(p.keys) |->
                           IF i = nextIndex
                           THEN [p.keys[i] EXCEPT !.usageCount = @ + 1,
                                                  !.isActive = TRUE]
                           ELSE [p.keys[i] EXCEPT !.isActive = FALSE]],
              !.totalCalls = @ + 1]))

\* The primary fallback left out: nothing is returned when no key is available.
noFallback(ks) == NoKey

\* The last resort of getNextKey: the primary key, unless it is disabled.
primaryFallback(ks) ==
    LET Usable(k) == k.isPrimary /\ ~k.isDisabled IN FirstIndex(ks, Usable)

\* The remainder operator of the source language: the sign of the dividend.
Rem(a, n) == IF a >= 0 THEN a % n ELSE 0 - ((0 - a) % n)

\* The round-robin scan reads state.keys[(currentIndex + i) % length] with i
\* from 0: when currentIndex is -1 in a pool of several keys the first read is
\* keys[-1], undefined, and reading its isDisabled throws a TypeError.
scanThrows(p) == Rem(p.currentIndex, Len(p.keys)) < 0

\* The scan taking the key at currentIndex whatever its state.
roundRobinBlind(p, now) == (p.currentIndex % Len(p.keys)) + 1

\* The round-robin scan: the first available key from currentIndex on, wrapping.
roundRobin(p, now) ==
    LET n == Len(p.keys)
        At(i) == Rem(p.currentIndex + i, n) + 1
        first == CHOOSE i \in 0..(n - 1) :
                     /\ Available(p.keys[At(i)], now)
                     /\ \A j \in 0..(i - 1) : ~Available(p.keys[At(j)], now)
    IN  At(first)

AvailableIndices(p, now) == {i \in Indices(p.keys) : Available(p.keys[i], now)}

\* The positions getNextKey may choose among, once the states are refreshed:
\* any available one in shuffle mode (Math.random), the scan's otherwise.
\* The positions getNextKey may choose among in the refreshed state q.
CandidatesAmong(q, now) ==
    IF AvailableIndices(q, now) = {} THEN {NoKey}
    ELSE IF q.shuffleMode THEN AvailableIndices(q, now)
    ELSE IF scanThrows(q) THEN {NoKey}
    ELSE {roundRobin(q, now)}

Candidates(p, now) == CandidatesAmong(refreshKeyStates(p, now), now)

\* getNextKey after its call of refreshKeyStates, which left the state q.
keySelected(q, now, pick) ==
    IF Len(q.keys) = 0 THEN [pool |-> q, index |-> NoKey, threw |-> FALSE]
    ELSE IF AvailableIndices(q, now) = {}
    THEN [pool |-> q, index |-> primaryFallback(q.keys), threw |-> FALSE]
    ELSE IF ~q.shuffleMode /\ scanThrows(q)
    THEN [pool |-> q, index |-> NoKey, threw |-> TRUE]
    ELSE [pool |-> selectKey(q, pick), index |-> pick, threw |-> FALSE]

\* getNextKey, given the position its random draw falls on: the new state,
\* the position of the key returned (NoKey for null) and whether the call
\* threw instead of returning.
getNextKey(p, now, pick) == keySelected(refreshKeyStates(p, now), now, pick)

\* getCurrentKey: the active key that is not disabled, or else the first
\* available one; isRateLimited runs on every enabled key the search passes.
getCurrentKey(p, now) ==
    LET Active(k) == k.isActive /\ ~k.isDisabled
        Free(k) == Available(k, now)
        active == FirstIndex(p.keys, Active)
        found == FirstIndex(p.keys, Free)
        last == IF found = NoKey THEN Len(p.keys) ELSE found
    IN  IF active # NoKey THEN [pool |-> p, index |-> active]
        ELSE [pool |-> [p EXCEPT !.keys = [i \in Indices(p.keys) |->
                                   IF i <= last /\ ~p.keys[i].isDisabled
                                   THEN isRateLimitedWrites(p.keys[i], now)
                                   ELSE p.keys[i]]],
              index |-> found]

isRateLimitError(e) == e.code = 429 \/ e.rateLimitText
isQuotaExhausted(e) == e.quotaText
isServerError(e) == e.code >= 500 /\ e.code < 600
isAuthError(e) == e.code = 401 \/ e.code = 403

\* The classification with the auth test made before the message tests.
classifyAuthFirst(key, e, now) ==
    LET k1 == IF isAuthError(e)
              THEN [key EXCEPT !.isDisabled = TRUE, !.failCount = MAX_FAIL_COUNT]
              ELSE IF isRateLimitError(e)
              THEN [key EXCEPT !.rateLimited = TRUE,
                               !.rateLimitedUntil = now + RATE_LIMIT_COOLDOWN_MS,
                               !.failCount = @ + 1]
              ELSE IF isQuotaExhausted(e)
              THEN [key EXCEPT !.rateLimited = TRUE,
                               !.rateLimitedUntil = now + QUOTA_EXHAUSTED_COOLDOWN_MS,
                               !.failCount = @ + 1]
              ELSE IF isServerError(e)
              THEN [key EXCEPT !.failCount = @ + 1]
              ELSE key
    IN  IF k1.failCount >= MAX_FAIL_COUNT /\ ~k1.isPrimary
        THEN [k1 EXCEPT !.isDisabled = TRUE]
        ELSE k1

\* The classification with the disable threshold applied to the primary too.
classifyAnyKey(key, e, now) ==
    LET k1 == IF isRateLimitError(e)
              THEN [key EXCEPT !.rateLimited = TRUE,
                               !.rateLimitedUntil = now + RATE_LIMIT_COOLDOWN_MS,
                               !.failCount = @ + 1]
              ELSE IF isQuotaExhausted(e)
              THEN [key EXCEPT !.rateLimited = TRUE,
                               !.rateLimitedUntil = now + QUOTA_EXHAUSTED_COOLDOWN_MS,
                               !.failCount = @ + 1]
              ELSE IF isAuthError(e)
              THEN [key EXCEPT !.isDisabled = TRUE, !.failCount = MAX_FAIL_COUNT]
              ELSE IF isServerError(e)
              THEN [key EXCEPT !.failCount = @ + 1]
              ELSE key
    IN  IF k1.failCount >= MAX_FAIL_COUNT
        THEN [k1 EXCEPT !.isDisabled = TRUE]
        ELSE k1

\* The classification with the two cooldowns swapped.
classifySwapped(key, e, now) ==
    LET k1 == IF isRateLimitError(e)
              THEN [key EXCEPT !.rateLimited = TRUE,
                               !.rateLimitedUntil = now + QUOTA_EXHAUSTED_COOLDOWN_MS,
                               !.failCount = @ + 1]
              ELSE IF isQuotaExhausted(e)
              THEN [key EXCEPT !.rateLimited = TRUE,
                               !.rateLimitedUntil = now + RATE_LIMIT_COOLDOWN_MS,
                               !.failCount = @ + 1]
              ELSE IF isAuthError(e)
              THEN [key EXCEPT !.isDisabled = TRUE, !.failCount = MAX_FAIL_COUNT]
              ELSE IF isServerError(e)
              THEN [key EXCEPT !.failCount = @ + 1]
              ELSE key
    IN  IF k1.failCount >= MAX_FAIL_COUNT /\ ~k1.isPrimary
        THEN [k1 EXCEPT !.isDisabled = TRUE]
        ELSE k1

\* What handleError does to the current key: the first matching class, then
\* the disable threshold.
classify(key, e, now) ==
    LET k1 == IF isRateLimitError(e)
              THEN [key EXCEPT !.rateLimited = TRUE,
                               !.rateLimitedUntil = now + RATE_LIMIT_COOLDOWN_MS,
                               !.failCount = @ + 1]
              ELSE IF isQuotaExhausted(e)
              THEN [key EXCEPT !.rateLimited = TRUE,
                               !.rateLimitedUntil = now + QUOTA_EXHAUSTED_COOLDOWN_MS,
                               !.failCount = @ + 1]
              ELSE IF isAuthError(e)
              THEN [key EXCEPT !.isDisabled = TRUE, !.failCount = MAX_FAIL_COUNT]
              ELSE IF isServerError(e)
              THEN [key EXCEPT !.failCount = @ + 1]
              ELSE key
    IN  IF k1.failCount >= MAX_FAIL_COUNT /\ ~k1.isPrimary
        THEN [k1 EXCEPT !.isDisabled = TRUE]
        ELSE k1

\* handleError up to its call of getNextKey: the current key is classified
\* and the store is written.
errorClassified(p, e, now) ==
    LET cur == getCurrentKey(p, now)
    IN  IF cur.index = NoKey THEN cur.pool
        ELSE saveState([cur.pool EXCEPT !.keys[cur.index] =
                                  classify(cur.pool.keys[cur.index], e, now)])

\* What handleError returns, given the current key it found and the outcome
\* of its getNextKey call.
errorHandled(cur, next) ==
    LET current == cur.pool.keys[cur.index]
        nextKey == next.pool.keys[next.index]
    IN  IF cur.index = NoKey
        THEN [pool |-> cur.pool, failed |-> NoKey, switched |-> FALSE,
              newKey |-> NoKey, message |-> "No keys available", threw |-> FALSE]
        ELSE IF next.threw
        THEN [pool |-> next.pool, failed |-> cur.index, switched |-> FALSE,
              newKey |-> NoKey, message |-> "TypeError", threw |-> TRUE]
        ELSE IF next.index # NoKey /\ nextKey.id # current.id
        THEN [pool |-> notifyListeners(next.pool), failed |-> cur.index,
              switched |-> TRUE,
              newKey |-> nextKey.id, message |-> "switching", threw |-> FALSE]
        ELSE [pool |-> notifyListeners(next.pool), failed |-> cur.index,
              switched |-> FALSE,
              newKey |-> NoKey, message |-> "All keys exhausted or unavailable",
              threw |-> FALSE]

\* handleError: the new state, the position of the key that failed (NoKey when
\* there is no current key) and the result returned; when its getNextKey call
\* throws, so does handleError, after the classification.
handleError(p, e, now, pick) ==
    errorHandled(getCurrentKey(p, now),
                 getNextKey(errorClassified(p, e, now), now, pick))

\* reportSuccess clearing the flag and the fail count, the timestamp left.
reportSuccessHalf(p, now) ==
    LET cur == getCurrentKey(p, now)
    IN  IF cur.index = NoKey THEN cur.pool
        ELSE saveState([cur.pool EXCEPT !.keys[cur.index].failCount = 0,
                                        !.keys[cur.index].rateLimited = FALSE])

reportSuccess(p, now) ==
    LET cur == getCurrentKey(p, now)
    IN  IF cur.index = NoKey THEN cur.pool
        ELSE saveState([cur.pool EXCEPT !.keys[cur.index].failCount = 0,
                                        !.keys[cur.index].rateLimited = FALSE,
                                        !.keys[cur.index].rateLimitedUntil = NoTime])

resetAllCooldowns(p) ==
    notifyListeners(saveState(
    [p EXCEPT !.keys = [i \in Indices(p.keys) |->
                           [p.keys[i] EXCEPT !.rateLimited = FALSE,
                                             !.rateLimitedUntil = NoTime,
                                             !.cooldownUntil = NoTime,
                                             !.isDisabled = FALSE,
                                             !.failCount = 0]]]))

setShuffleMode(p, enabled) ==
    notifyListeners(saveState([p EXCEPT !.shuffleMode = enabled]))

\* What testConnection resolves to: success, a 429, a 403, another status
\* whose message contains "quota", the 3 s timeout, any other failure.
ProbeOutcomes == {"ok", "429", "403", "quota", "timeout", "fail"}

\* getNextWorkingKeyFast up to its first await: the states are refreshed, the
\* keys to probe are the available ones in pool order (held by reference, here
\* by id), and with none of them the call returns at once.
probeBegin(p, now) ==
    LET q == refreshKeyStates(p, now)
        free == SelectSeq(q.keys, LAMBDA k : Available(k, now))
        limited == \E i \in Indices(q.keys) :
                       ~q.keys[i].isDisabled /\ isRateLimited(q.keys[i], now)
    IN  [pool |-> q,
         list |-> [i \in Indices(free) |-> free[i].id],
         message |-> IF Len(free) > 0 THEN ""
                     ELSE IF limited THEN "All keys rate-limited"
                     ELSE "No API keys configured"]

\* The probe with a timeout counted against the key as a failed request is.
probeResolvedCounting(p, id, outcome, now) ==
    LET index == IndexOfId(p.keys, id)
    IN  IF outcome = "ok"
        THEN notifyListeners(saveState(
             [p EXCEPT !.keys = [i \in Indices(p.keys) |->
                                    [p.keys[i] EXCEPT !.isActive = (p.keys[i].id = id)]],
                       !.currentIndex = index - 1]))
        ELSE IF index = NoKey THEN p
        ELSE IF outcome = "429"
        THEN [p EXCEPT !.keys[index].rateLimited = TRUE,
                       !.keys[index].rateLimitedUntil = now + RATE_LIMIT_COOLDOWN_MS,
                       !.keys[index].failCount = @ + 1]
        ELSE IF outcome \in {"403", "quota"}
        THEN [p EXCEPT !.keys[index].cooldownUntil = now + QUOTA_EXHAUSTED_COOLDOWN_MS]
        ELSE IF outcome = "timeout"
        THEN [p EXCEPT !.keys[index].failCount = @ + 1]
        ELSE p

\* getNextWorkingKeyFast after an await: the probe of the key id has resolved.
\* The key object is written whether or not it is still in state.keys; a
\* success deactivates every other key of state.keys, sets currentIndex to
\* findIndex of the key, -1 when it was removed meanwhile, and writes the
\* store; a failure marks the key and writes nothing to the store.
probeResolved(p, id, outcome, now) ==
    LET index == IndexOfId(p.keys, id)
    IN  IF outcome = "ok"
        THEN notifyListeners(saveState(
             [p EXCEPT !.keys = [i \in Indices(p.keys) |->
                                    [p.keys[i] EXCEPT !.isActive = (p.keys[i].id = id)]],
                       !.currentIndex = index - 1]))
        ELSE IF index = NoKey THEN p
        ELSE IF outcome = "429"
        THEN [p EXCEPT !.keys[index].rateLimited = TRUE,
                       !.keys[index].rateLimitedUntil = now + RATE_LIMIT_COOLDOWN_MS,
                       !.keys[index].failCount = @ + 1]
        ELSE IF outcome \in {"403", "quota"}
        THEN [p EXCEPT !.keys[index].cooldownUntil = now + QUOTA_EXHAUSTED_COOLDOWN_MS]
        ELSE p

\* -------------------------------------- the key manager's observers
NoError == Error(-1, FALSE, FALSE)
NoPrior == [failed |-> NoKey, err |-> NoError, wasActive |-> FALSE]
\* What the last operation was given and returned, until the clock moves on:
\* the id of the key returned, the id of the key handleError classified and
\* whether it was the active key, the error, handleError's result, the
\* handleError call that a getNextKey call follows directly, and the ids of the
\* keys whose rateLimitedUntil had passed, and of those that were disabled,
\* when the operation began, and whether the classification left the failed
\* key's failCount at the disable threshold; the health fields of the failed
\* key as getCurrentKey returned it and as handleError's saveState persisted
\* them, after the classification and before the selection.
Health(k) ==
    [rateLimited |-> k.rateLimited, rateLimitedUntil |-> k.rateLimitedUntil,
     failCount |-> k.failCount, isDisabled |-> k.isDisabled]
NoHealth == Health(NewKey(NoKey, FALSE))
NoRet == [key |-> NoKey, failed |-> NoKey, wasActive |-> FALSE,
          err |-> NoError, switched |-> FALSE, newKey |-> NoKey, message |-> "",
          prior |-> NoPrior, expired |-> {}, wasDisabled |-> {},
          atThreshold |-> FALSE, before |-> NoHealth, saved |-> NoHealth,
          threw |-> FALSE, given |-> <<>>, masked |-> <<>>]

IdAt(ks, i) == IF i = NoKey THEN NoKey ELSE ks[i].id
DisabledIds(ks) == {ks[i].id : i \in {j \in Indices(ks) : ks[j].isDisabled}}
ExpiredIds(ks, now) ==
    {ks[i].id : i \in {j \in Indices(ks) :
                          ks[j].rateLimitedUntil # NoTime /\ now >= ks[j].rateLimitedUntil}}

\* No getNextWorkingKeyFast call was made: runs counts the calls, list and i
\* are the keys to probe and the one being awaited, message and key the result,
\* outcome what the probe awaited last resolved to.
NoProbe == [phase |-> "idle", runs |-> 0, list |-> <<>>, i |-> 0, message |-> "",
            key |-> NoKey, outcome |-> ""]

\* What a state listener of the key manager holds after a method whose pool
\* is p has run: a notification hands it { ...this.state }, a new object whose
\* keys is the array state.keys itself.
KeyListenerAfter(p) ==
    IF p.notified /\ keyListener # {} THEN keyListener \cup {"shallow"}
    ELSE keyListener

\* loadState has returned; no old-format record is in the store.  legacy is
\* the record under "gemini_api_keys" (its credentials in order, <<>> when the
\* entry is absent), original the credentials it held when the page loaded.
NoBoot == [pc |-> "done", legacy |-> <<>>, original |-> {}]

\* The old-format records: credentials in order, none twice.
Credentials == 1..MaxLegacy
LegacyRecords ==
    {r \in UNION {[1..n -> Credentials] : n \in 0..MaxLegacy} :
        \A i, j \in 1..Len(r) : r[i] = r[j] => i = j}

\* The keys loadState makes of the old-format record: the fields it sets (the
\* credential stands for the fields spread from the old entry).
Migrated(old) == [i \in 1..Len(old) |-> NewKey(old[i], i = 1)]

\* The credentials a key list holds.
CredentialsOf(ks) == {ks[i].id : i \in 1..Len(ks)}

KeyManagerNew ==
    /\ boot = NoBoot
    /\ keyListener = {}
    /\ probe = NoProbe
    /\ stored = EmptyStore
    /\ keys = <<>>
    /\ currentIndex = 0
    /\ shuffleMode = FALSE
    /\ totalCalls = 0
    /\ nextId = 0
    /\ ret = NoRet
    /\ rotation = <<>>
    /\ waiting = <<>>
    /\ everCooled = {}

\* ------------------------------------------- the detector's observers
FeedNone == [phase |-> "none", entry |-> "none", tick |-> -1, first |-> 0,
             lastSpeak |-> 0, last |-> 0, chunks |-> 0]
FeedFresh == [FeedNone EXCEPT !.phase = "fresh"]
FeedOff == [FeedNone EXCEPT !.phase = "off"]

\* The stream fed since start(), observed where the observation was set up
\* (phase "fresh"): speaking samples, then silent samples, through one entry
\* point at one tick spacing.  Anything else ends the observation ("off"), as
\* does a stream longer than 1500 ms of speech or 2000 ms of silence.
FeedNext(f, entry, speaking, now, n) ==
    IF f.phase \in {"none", "off"} THEN f
    ELSE IF f.phase = "fresh"
    THEN IF speaking
         THEN [phase |-> "speech", entry |-> entry, tick |-> -1, first |-> now,
               lastSpeak |-> now, last |-> now, chunks |-> n]
         ELSE FeedOff
    ELSE IF \/ entry # f.entry
            \/ f.tick # -1 /\ now - f.last # f.tick
            \/ f.phase = "silence" /\ speaking
            \/ speaking /\ now - f.first > 1500
            \/ ~speaking /\ now - f.lastSpeak > 2000
    THEN FeedOff
    ELSE [f EXCEPT !.phase = IF speaking THEN "speech" ELSE "silence",
                   !.tick = now - f.last,
                   !.lastSpeak = IF speaking THEN now ELSE @,
                   !.last = now,
                   !.chunks = @ + n]

FeedEnd(f) == IF f.phase = "none" THEN f ELSE FeedOff
FeedStart(f) == IF f.phase = "none" THEN f ELSE FeedFresh

NoSpan == [first |-> 0, cont |-> FALSE, entry |-> "none", due |-> FALSE]
BrokenSpan == [first |-> -1, cont |-> FALSE, entry |-> "none", due |-> FALSE]

\* The span of speech since the last emission or reset: the time of its first
\* speaking sample, whether every sample since was speaking and came through
\* one entry point, and (due) whether maxChunkDuration had elapsed since that
\* first sample at the sample just processed.
SpanNext(s, entry, speaking, now, n, maxChunkDuration) ==
    LET s1 == IF s.first = 0
              THEN IF speaking
                   THEN [first |-> now, cont |-> TRUE, entry |-> entry, due |-> FALSE]
                   ELSE NoSpan
              ELSE IF s.cont /\ speaking /\ s.entry = entry
                   THEN s
                   ELSE BrokenSpan
        due == s1.cont /\ now - s1.first >= maxChunkDuration
    IN  IF n > 0
        THEN [NoSpan EXCEPT !.due = due, !.entry = IF due THEN entry ELSE "none"]
        ELSE [s1 EXCEPT !.due = due]

SpanAfter(s, n) == IF n > 0 THEN NoSpan ELSE [s EXCEPT !.due = FALSE]

\* What a state listener of the detector holds after a method that left the
\* manager m: a notification hands it { ...this.state }, a new object of
\* numbers, strings and booleans ("snapshot"); the object this.state that
\* subscribe handed it ("state") is the manager's own until reset() assigns
\* this.state a new one.
VadListenerAfter(m) ==
    LET kept == IF m.replaced /\ "state" \in vadListener
                THEN (vadListener \ {"state"}) \cup {"snapshot"}
                ELSE vadListener
    IN  IF m.notified /\ vadListener # {} THEN kept \cup {"snapshot"} ELSE kept

\* ------------------------------------------------------------- actions
\* The manager's new value becomes the state; the chunk listeners have run.
Commit(m, name) ==
    /\ config' = m.config
    /\ state' = m.state
    /\ audioBuffer' = m.audioBuffer
    /\ bufferStartTime' = m.bufferStartTime
    /\ lastUpdateTime' = m.lastUpdateTime
    /\ op' = name
    /\ delivered' = m.chunks
    /\ vadListener' = VadListenerAfter(m)
    /\ snapshots' = m.snapshots
    /\ UNCHANGED <<stepsBack, keyVars>>

\* The detector as constructed.
VadNew(c, f) ==
    /\ clock = Epoch
    /\ config = c
    /\ state = InitialState
    /\ audioBuffer = 0
    /\ bufferStartTime = 0
    /\ lastUpdateTime = 0
    /\ op = "new"
    /\ delivered = <<>>
    /\ feed = f
    /\ span = NoSpan
    /\ vadListener = {}
    /\ snapshots = <<>>
    /\ stepsBack = 0

VadInitWith(c, f) == VadNew(c, f) /\ KeyManagerNew

\* Time passes: Date.now() moves on, nothing else does.
AdvanceClockTo(ticks) ==
    \E d \in Deltas :
        /\ clock + d <= Epoch + ticks * d
        /\ clock' = clock + d
        /\ UNCHANGED <<op, vadOnly, keyVars>>

ProcessAudioOf(samples, windows) ==
    LET m == processAudio(Manager, samples, clock)
    IN  /\ state.chunksSent < MaxChunks
        /\ audioBuffer < windows
        /\ Commit(m, "processAudio")
        /\ feed' = FeedNext(feed, "audio", m.state.isSpeaking, clock, Len(m.chunks))
        /\ span' = SpanNext(span, "audio", m.state.isSpeaking, clock,
                            Len(m.chunks), config.maxChunkDuration)
        /\ UNCHANGED clock

ProcessAudioUpTo(windows) == \E samples \in Windows : ProcessAudioOf(samples, windows)

ProcessVolumeOf(volume) ==
    LET m == processVolume(Manager, volume, clock)
    IN  /\ state.chunksSent < MaxChunks
        /\ Commit(m, "processVolume")
        /\ feed' = FeedNext(feed, "volume", m.state.isSpeaking, clock, Len(m.chunks))
        /\ span' = SpanNext(span, "volume", m.state.isSpeaking, clock,
                            Len(m.chunks), config.maxChunkDuration)
        /\ UNCHANGED clock

ProcessVolume == \E volume \in Volumes : ProcessVolumeOf(volume)

Stop ==
    LET m == stop(Manager, clock)
    IN  /\ state.chunksSent < MaxChunks
        /\ Commit(m, "stop")
        /\ feed' = FeedEnd(feed)
        /\ span' = SpanAfter(span, Len(m.chunks))
        /\ UNCHANGED clock

Start ==
    /\ Commit(start(Manager), "start")
    /\ feed' = FeedStart(feed)
    /\ span' = NoSpan
    /\ UNCHANGED clock

ForceFlush ==
    LET m == forceFlush(Manager, clock)
    IN  /\ state.chunksSent < MaxChunks
        /\ Commit(m, "forceFlush")
        /\ feed' = FeedEnd(feed)
        /\ span' = SpanAfter(span, Len(m.chunks))
        /\ UNCHANGED clock

SetConfigAmong(configs) ==
    \E partial \in configs :
        /\ Commit(setConfig(Manager, partial), "setConfig")
        /\ feed' = FeedEnd(feed)
        /\ span' = SpanAfter(span, 0)
        /\ UNCHANGED clock

SetConfig == SetConfigAmong(Configs)

AdvanceClock == AdvanceClockTo(MaxTicks)
ProcessAudio == ProcessAudioUpTo(MaxWindows)

\* The detector under every operation; the configuration is the stored one.
VadInit == \E c \in Configs : VadInitWith(c, FeedNone)

VadNext ==
    \/ AdvanceClock
    \/ ProcessAudio
    \/ ProcessVolume
    \/ Stop
    \/ Start
    \/ ForceFlush
    \/ SetConfig

VadSpec == VadInit /\ [][VadNext]_vars

\* The detector fed samples under any configuration, the zero one included.
QuietSetConfig == SetConfigAmong(AnyConfigs)

QuietInit == \E c \in AnyConfigs : VadInitWith(c, FeedNone)

QuietNext ==
    \/ AdvanceClock
    \/ ProcessAudio
    \/ ProcessVolume
    \/ Start
    \/ QuietSetConfig

QuietSpec == QuietInit /\ [][QuietNext]_vars

\* Date.now() steps back (the system clock is adjusted): the next process call
\* computes a negative deltaTime.
ClockStepsBack ==
    \E d \in Deltas :
        /\ stepsBack < MaxStepsBack
        /\ clock - d >= Epoch
        /\ clock' = clock - d
        /\ stepsBack' = stepsBack + 1
        /\ UNCHANGED <<op, config, state, audioBuffer, bufferStartTime,
                       lastUpdateTime, delivered, feed, span, vadListener,
                       snapshots, keyVars>>

SkewAdvanceClock == AdvanceClockTo(SkewTicks)
SkewProcessAudio == ProcessAudioUpTo(SkewWindows)
SkewProcessVolume == \E volume \in Volumes \cup {NaN} : ProcessVolumeOf(volume)

\* The detector fed samples, NaN volumes among them, while the clock may step back.
SkewNext ==
    \/ SkewAdvanceClock
    \/ ClockStepsBack
    \/ SkewProcessAudio
    \/ SkewProcessVolume
    \/ Start

SkewSpec == VadInit /\ [][SkewNext]_vars

\* The detector with the default configuration, started and fed samples.
FeedAdvanceClock == AdvanceClockTo(FeedTicks)
FeedProcessAudio == ProcessAudioUpTo(FeedWindows)

FeedInit == VadInitWith(DefaultConfig, FeedFresh)

FeedNextStep ==
    \/ FeedAdvanceClock
    \/ FeedProcessAudio
    \/ ProcessVolume
    \/ Start

FeedSpec == FeedInit /\ [][FeedNextStep]_vars


\* --------------------------------------------- the key manager's actions
\* The pool's new value becomes the state, and the store what the method's
\* saveState calls left in it; the listeners have run.
CommitPool(p, name, r) ==
    /\ keys' = p.keys
    /\ stored' = p.stored
    /\ keyListener' = KeyListenerAfter(p)
    /\ currentIndex' = p.currentIndex
    /\ shuffleMode' = p.shuffleMode
    /\ totalCalls' = p.totalCalls
    /\ op' = name
    /\ ret' = r
    /\ UNCHANGED <<clock, vadOnly, probe, boot>>

\* Time passes: Date.now() moves on by a short cooldown.
KeyAdvanceClock ==
    /\ clock + RATE_LIMIT_COOLDOWN_MS <= Epoch + MaxWaits * RATE_LIMIT_COOLDOWN_MS
    /\ clock' = clock + RATE_LIMIT_COOLDOWN_MS
    /\ op' = "wait"
    /\ ret' = NoRet
    /\ UNCHANGED <<vadOnly, boot, keys, currentIndex, shuffleMode, totalCalls, nextId,
                   stored, rotation, waiting, everCooled, probe, keyListener>>

AddKeyUpTo(most) ==
    /\ nextId < most
    /\ CommitPool(addKey(Pool, nextId + 1), "addKey", NoRet)
    /\ nextId' = nextId + 1
    /\ rotation' = <<>>
    /\ waiting' = <<>>
    /\ UNCHANGED everCooled

RemoveKey ==
    \E i \in Indices(keys) :
        /\ CommitPool(removeKey(Pool, keys[i].id), "removeKey", NoRet)
        /\ rotation' = <<>>
        /\ waiting' = <<>>
        /\ UNCHANGED <<nextId, everCooled>>

\* The keys returned in a row, each by a call that found every key available.
RotationNext(p, index) ==
    LET n == Len(p.keys)
        all == Append(rotation, p.keys[index].id)
    IN  IF index = NoKey \/ AvailableIndices(p, clock) # Indices(p.keys) THEN <<>>
        ELSE IF Len(all) > n + 1 THEN Tail(all) ELSE all

\* Per key of the pool p as a round-robin getNextKey call found it, the calls
\* made in a row since the key was last returned, or was last not available,
\* that did not return it; index is the position of the key this call
\* returns, NoKey when it returns null or throws.
WaitingNext(p, index) ==
    LET before == IF Len(waiting) = Len(p.keys) THEN waiting
                  ELSE [i \in Indices(p.keys) |-> 0]
    IN  IF p.shuffleMode THEN <<>>
        ELSE [i \in Indices(p.keys) |->
                 IF i = index \/ ~Available(p.keys[i], clock) THEN 0
                 ELSE before[i] + 1]

\* A call of getNextKey; counting tells whether the calls that pass a key
\* over are counted, and then no call is made once a key was passed over
\* StarveKeys times.
GetNextKeyObserved(calls, counting) ==
    \E pick \in Candidates(Pool, clock) :
        LET r == getNextKey(Pool, clock, pick)
        IN  /\ totalCalls < calls
            /\ \A i \in 1..Len(waiting) : waiting[i] < StarveKeys
            /\ waiting' = IF counting
                          THEN WaitingNext(refreshKeyStates(Pool, clock), r.index)
                          ELSE <<>>
            /\ CommitPool(r.pool, "getNextKey",
                   [NoRet EXCEPT !.key = IdAt(r.pool.keys, r.index),
                                 !.threw = r.threw,
                                 !.expired = ExpiredIds(keys, clock),
                                 !.wasDisabled = DisabledIds(keys),
                                 !.prior = IF op = "handleError"
                                           THEN [failed |-> ret.failed, err |-> ret.err,
                                                 wasActive |-> ret.wasActive]
                                           ELSE NoPrior])
            /\ rotation' = RotationNext(r.pool, r.index)
            /\ UNCHANGED <<nextId, everCooled>>

GetNextKeyUpTo(calls) == GetNextKeyObserved(calls, FALSE)

GetCurrentKey ==
    LET r == getCurrentKey(Pool, clock)
    IN  /\ CommitPool(r.pool, "getCurrentKey",
               [NoRet EXCEPT !.key = IdAt(r.pool.keys, r.index)])
        /\ rotation' = <<>>
        /\ waiting' = <<>>
        /\ UNCHANGED <<nextId, everCooled>>

HandleErrorWith(errors, calls) ==
    \E e \in errors :
        \E pick \in Candidates(errorClassified(Pool, e, clock), clock) :
            LET cur == getCurrentKey(Pool, clock)
                r == handleError(Pool, e, clock, pick)
                failed == IdAt(r.pool.keys, r.failed)
            IN  /\ totalCalls < calls
                /\ cur.index # NoKey => keys[cur.index].failCount < MaxFails
                /\ CommitPool(r.pool, "handleError",
                       [NoRet EXCEPT !.failed = failed,
                                     !.wasActive = cur.index # NoKey
                                                   /\ keys[cur.index].isActive,
                                     !.err = e,
                                     !.switched = r.switched,
                                     !.newKey = r.newKey,
                                     !.message = r.message,
                                     !.threw = r.threw,
                                     !.before =
                                         IF cur.index = NoKey THEN NoHealth
                                         ELSE Health(cur.pool.keys[cur.index]),
                                     !.saved =
                                         IF cur.index = NoKey THEN NoHealth
                                         ELSE Health(errorClassified(Pool, e, clock)
                                                        .keys[cur.index]),
                                     !.atThreshold =
                                         /\ cur.index # NoKey
                                         /\ errorClassified(Pool, e, clock)
                                                .keys[cur.index].failCount
                                                >= MAX_FAIL_COUNT])
                /\ rotation' = <<>>
                /\ waiting' = <<>>
                /\ everCooled' =
                       IF failed # NoKey /\ (isRateLimitError(e) \/ isQuotaExhausted(e))
                       THEN everCooled \cup {failed}
                       ELSE everCooled
                /\ UNCHANGED nextId

ReportSuccess ==
    /\ CommitPool(reportSuccess(Pool, clock), "reportSuccess", NoRet)
    /\ rotation' = <<>>
    /\ waiting' = <<>>
    /\ UNCHANGED <<nextId, everCooled>>

RefreshKeyStates ==
    /\ CommitPool(refreshKeyStates(Pool, clock), "refreshKeyStates",
                  [NoRet EXCEPT !.expired = ExpiredIds(keys, clock),
                                !.wasDisabled = DisabledIds(keys)])
    /\ rotation' = <<>>
    /\ waiting' = <<>>
    /\ UNCHANGED <<nextId, everCooled>>

ResetAllCooldowns ==
    /\ CommitPool(resetAllCooldowns(Pool), "resetAllCooldowns", NoRet)
    /\ rotation' = <<>>
    /\ waiting' = <<>>
    /\ UNCHANGED <<nextId, everCooled>>

SetShuffleMode ==
    \E enabled \in BOOLEAN :
        /\ CommitPool(setShuffleMode(Pool, enabled), "setShuffleMode", NoRet)
        /\ rotation' = <<>>
        /\ waiting' = <<>>
        /\ UNCHANGED <<nextId, everCooled>>

HandleErrorUpTo(calls) == HandleErrorWith(Errors, calls)
AddKey == AddKeyUpTo(MaxKeys)
GetNextKey == GetNextKeyUpTo(MaxCalls)
HandleError == HandleErrorUpTo(MaxCalls)

\* The key manager under its synchronous operations; the store was empty.
KeyInit == VadInitWith(DefaultConfig, FeedNone)

KeyNext ==
    \/ KeyAdvanceClock
    \/ AddKey
    \/ RemoveKey
    \/ GetNextKey
    \/ GetCurrentKey
    \/ HandleError
    \/ ReportSuccess
    \/ RefreshKeyStates
    \/ ResetAllCooldowns
    \/ SetShuffleMode

KeySpec == KeyInit /\ [][KeyNext]_vars

\* maskKey is called on a key text: nothing of the manager changes.
MaskKey ==
    \E key \in KeyTexts :
        /\ CommitPool(Pool, "maskKey",
               [NoRet EXCEPT !.given = key, !.masked = maskKey(key)])
        /\ UNCHANGED <<nextId, rotation, waiting, everCooled>>

MaskNext == MaskKey

MaskSpec == KeyInit /\ [][MaskNext]_vars

\* ------------------------------------------------------------ loadState
\* A step of loadState: the memory and the store after it.
LoadStep(pc, ks, index, storage, old) ==
    /\ boot' = [boot EXCEPT !.pc = pc, !.legacy = old]
    /\ keys' = ks
    /\ currentIndex' = index
    /\ stored' = storage
    /\ op' = "loadState"
    /\ ret' = NoRet
    /\ rotation' = <<>>
    /\ waiting' = <<>>
    /\ UNCHANGED <<clock, vadOnly, nextId, everCooled, probe, keyListener>>

\* "Load keys": the entry under STORAGE_KEY is read.
LoadKeys ==
    /\ boot.pc = "keys"
    /\ LoadStep("old", stored.keys, currentIndex, stored, boot.legacy)
    /\ UNCHANGED <<shuffleMode, totalCalls>>

\* "Migrate from old format if needed", up to its call of saveState.
LoadOld ==
    /\ boot.pc = "old"
    /\ IF boot.legacy # <<>> /\ Len(keys) = 0
       THEN LoadStep("saveKeys", Migrated(boot.legacy), currentIndex, stored,
                     boot.legacy)
       ELSE LoadStep("counters", keys, currentIndex, stored, boot.legacy)
    /\ UNCHANGED <<shuffleMode, totalCalls>>

\* saveState, first setItem: it writes the keys, or throws (the quota is
\* exceeded) and saveState catches, logs and returns.
SaveKeys ==
    \E written \in BOOLEAN :
        /\ boot.pc = "saveKeys"
        /\ IF written
           THEN LoadStep("saveCounters", keys, currentIndex,
                         [stored EXCEPT !.keys = keys], boot.legacy)
           ELSE LoadStep("remove", keys, currentIndex, stored, boot.legacy)
        /\ UNCHANGED <<shuffleMode, totalCalls>>

\* saveState, second setItem: it writes the counters, or throws likewise.
SaveCounters ==
    \E written \in BOOLEAN :
        /\ boot.pc = "saveCounters"
        /\ LoadStep("remove", keys, currentIndex,
                    IF written THEN Saved(Pool) ELSE stored, boot.legacy)
        /\ UNCHANGED <<shuffleMode, totalCalls>>

\* localStorage.removeItem("gemini_api_keys").
RemoveOld ==
    /\ boot.pc = "remove"
    /\ LoadStep("counters", keys, currentIndex, stored, <<>>)
    /\ UNCHANGED <<shuffleMode, totalCalls>>

\* "Load state" and "Validate current index".
LoadCounters ==
    /\ boot.pc = "counters"
    /\ LoadStep("done", keys,
                IF stored.currentIndex >= Len(keys) THEN 0 ELSE stored.currentIndex,
                stored, boot.legacy)
    /\ shuffleMode' = stored.shuffleMode
    /\ totalCalls' = stored.totalCalls

\* The page is closed or reloaded, at any point: the memory is lost, the
\* store is kept, and a new manager is constructed.
Reload ==
    /\ LoadStep("keys", <<>>, 0, stored, boot.legacy)
    /\ shuffleMode' = FALSE
    /\ totalCalls' = 0

\* The store when the page loads: an old-format record or none, a new-format
\* record or none, counters as saved before.
LoadInit ==
    /\ VadNew(DefaultConfig, FeedNone)
    /\ \E old \in LegacyRecords :
           boot = [pc |-> "keys", legacy |-> old, original |-> CredentialsOf(Migrated(old))]
    /\ \E ks \in {<<>>, <<NewKey(MaxLegacy + 1, TRUE)>>}, index \in {0, 1} :
           stored = [EmptyStore EXCEPT !.keys = ks, !.currentIndex = index]
    /\ keys = <<>>
    /\ currentIndex = 0
    /\ shuffleMode = FALSE
    /\ totalCalls = 0
    /\ nextId = 0
    /\ ret = NoRet
    /\ rotation = <<>>
    /\ waiting = <<>>
    /\ everCooled = {}
    /\ probe = NoProbe
    /\ keyListener = {}

LoadNext ==
    \/ LoadKeys
    \/ LoadOld
    \/ SaveKeys
    \/ SaveCounters
    \/ RemoveOld
    \/ LoadCounters
    \/ Reload

LoadSpec == LoadInit /\ [][LoadNext]_vars

\* The key manager while no request fails: handleError is never called.
RotateAddKey == AddKeyUpTo(RotateKeys)
RotateGetNextKey == GetNextKeyUpTo(RotateCalls)

RotateNext ==
    \/ KeyAdvanceClock
    \/ RotateAddKey
    \/ RemoveKey
    \/ RotateGetNextKey
    \/ GetCurrentKey
    \/ ReportSuccess
    \/ RefreshKeyStates
    \/ SetShuffleMode

RotateSpec == KeyInit /\ [][RotateNext]_vars

\* The key manager while requests are issued and fail over and over.
FailGetNextKey == GetNextKeyUpTo(FailCalls)
FailHandleError == HandleErrorUpTo(FailCalls)

FailNext ==
    \/ KeyAdvanceClock
    \/ AddKey
    \/ FailGetNextKey
    \/ FailHandleError
    \/ ReportSuccess

FailSpec == KeyInit /\ [][FailNext]_vars

\* The key manager given every kind of error.
ClassifyGetNextKey == GetNextKeyUpTo(ClassifyCalls)
ClassifyHandleError == HandleErrorWith(AllErrors, ClassifyCalls)

ClassifyNext ==
    \/ KeyAdvanceClock
    \/ AddKey
    \/ ClassifyGetNextKey
    \/ ClassifyHandleError

ClassifySpec == KeyInit /\ [][ClassifyNext]_vars

\* getNextWorkingKeyFast is called: it runs up to its first await.
ProbeStartUpTo(probes) ==
    LET b == probeBegin(Pool, clock)
    IN  /\ probe.phase = "idle"
        /\ probe.runs < probes
        /\ keys' = b.pool.keys
        /\ stored' = b.pool.stored
        /\ keyListener' = KeyListenerAfter(b.pool)
        /\ probe' = [phase |-> IF b.list = <<>> THEN "idle" ELSE "probing",
                      runs |-> probe.runs + 1,
                      list |-> b.list,
                      i |-> IF b.list = <<>> THEN 0 ELSE 1,
                      message |-> b.message,
                      key |-> NoKey,
                      outcome |-> ""]
        /\ op' = "probeStart"
        /\ ret' = NoRet
        /\ rotation' = <<>>
        /\ waiting' = <<>>
        /\ UNCHANGED <<clock, vadOnly, boot, currentIndex, shuffleMode, totalCalls, nextId,
                       everCooled>>

ProbeStart == ProbeStartUpTo(MaxProbes)

\* The awaited testConnection resolves: getNextWorkingKeyFast runs on to its
\* next await or to its return.
ProbeResult ==
    \E outcome \in ProbeOutcomes :
        LET id == probe.list[probe.i]
            q == probeResolved(Pool, id, outcome, clock)
        IN  /\ probe.phase = "probing"
            /\ keys' = q.keys
            /\ currentIndex' = q.currentIndex
            /\ stored' = q.stored
            /\ keyListener' = KeyListenerAfter(q)
            /\ probe' = IF outcome = "ok"
                         THEN [probe EXCEPT !.phase = "idle", !.message = "Connected",
                                            !.key = id, !.outcome = outcome]
                         ELSE IF probe.i = Len(probe.list)
                         THEN [probe EXCEPT !.phase = "idle",
                                            !.message = "All keys failed",
                                            !.outcome = outcome]
                         ELSE [probe EXCEPT !.i = @ + 1, !.outcome = outcome]
            /\ op' = "probeResult"
            /\ ret' = NoRet
            /\ rotation' = <<>>
            /\ waiting' = <<>>
            /\ everCooled' = IF /\ outcome \in {"429", "403", "quota"}
                                /\ IndexOfId(keys, id) # NoKey
                             THEN everCooled \cup {id}
                             ELSE everCooled
            /\ UNCHANGED <<clock, vadOnly, boot, shuffleMode, totalCalls, nextId>>

\* The key manager while keys are probed; other calls run during the awaits.
ProbeGetNextKey == GetNextKeyUpTo(ProbeCalls)

ProbeNext ==
    \/ KeyAdvanceClock
    \/ AddKey
    \/ RemoveKey
    \/ ProbeGetNextKey
    \/ ProbeStart
    \/ ProbeResult

ProbeSpec == KeyInit /\ [][ProbeNext]_vars

\* Keys are probed while requests fail: handleError runs during the awaits.
ProbeHandleError == HandleErrorUpTo(ProbeFailCalls)

ProbeFailNext ==
    \/ KeyAdvanceClock
    \/ AddKey
    \/ ProbeHandleError
    \/ ProbeStart
    \/ ProbeResult

ProbeFailSpec == KeyInit /\ [][ProbeFailNext]_vars

\* getNextKey is called over and over in round-robin mode while keys are
\* probed, added and removed.
StarveAddKey == AddKeyUpTo(StarveKeys)
StarveGetNextKey == GetNextKeyObserved(StarveCalls, TRUE)
StarveProbeStart == ProbeStartUpTo(StarveProbes)

StarveNext ==
    \/ KeyAdvanceClock
    \/ StarveAddKey
    \/ RemoveKey
    \/ StarveGetNextKey
    \/ StarveProbeStart
    \/ ProbeResult

StarveSpec == KeyInit /\ [][StarveNext]_vars

\* VADManager.subscribe: the listener is added and called with this.state.
VadSubscribe ==
    /\ vadListener' = vadListener \cup {"state"}
    /\ snapshots' = <<state>>
    /\ op' = "vadSubscribe"
    /\ UNCHANGED <<clock, config, state, audioBuffer, bufferStartTime,
                   lastUpdateTime, delivered, feed, span, stepsBack, keyVars>>

\* A state listener of the detector writes to a value it holds (it sets the
\* status to 'processing'): the write lands in the manager's state when that
\* value is the manager's object, in the listener's own object otherwise.
VadListenerWrites ==
    \E held \in vadListener :
        /\ state' = IF held = "state" THEN [state EXCEPT !.status = "processing"]
                     ELSE state
        /\ op' = "vadListener"
        /\ UNCHANGED <<clock, config, audioBuffer, bufferStartTime, lastUpdateTime,
                       delivered, feed, span, vadListener, snapshots, stepsBack,
                       keyVars>>

\* ApiKeyManager.subscribe: the listener is added and called with this.state.
KeySubscribe ==
    /\ keyListener' = keyListener \cup {"state"}
    /\ op' = "keySubscribe"
    /\ ret' = NoRet
    /\ UNCHANGED <<clock, vadOnly, boot, keys, currentIndex, shuffleMode, totalCalls,
                   nextId, stored, rotation, waiting, everCooled, probe>>

\* A state listener of the key manager writes to a value it holds: it flips
\* shuffleMode on the object, or disables the first key of its keys array.
\* The object is the manager's when subscribe handed it; the keys array and
\* the keys in it are the manager's in either case.
KeyListenerWrites ==
    \E held \in keyListener :
        \E field \in {"shuffleMode", "keys"} :
            /\ shuffleMode' = IF field = "shuffleMode" /\ held = "state"
                               THEN ~shuffleMode ELSE shuffleMode
            /\ keys' = IF field = "keys" /\ keys # <<>>
                        THEN [keys EXCEPT ![1].isDisabled = TRUE]
                        ELSE keys
            /\ op' = "keyListener"
            /\ ret' = NoRet
            /\ rotation' = <<>>
            /\ waiting' = <<>>
            /\ UNCHANGED <<clock, vadOnly, boot, currentIndex, totalCalls, nextId, stored,
                           everCooled, probe, keyListener>>

\* Both managers with a state listener subscribed.
ListenAdvanceClock == AdvanceClockTo(ListenTicks)

ListenNext ==
    \/ ListenAdvanceClock
    \/ ProcessVolume
    \/ Start
    \/ VadSubscribe
    \/ VadListenerWrites
    \/ AddKey
    \/ SetShuffleMode
    \/ KeySubscribe
    \/ KeyListenerWrites

ListenSpec == KeyInit /\ [][ListenNext]_vars

\* ------------------------------------------------- the detector's claims
IsProcess == op \in {"processAudio", "processVolume"}
OpenBuffer == audioBuffer > 0 \/ state.bufferDuration > 0

\* C1: after every process call (processAudio or processVolume), whatever the
\* samples and the tick spacing, speechDuration <= bufferDuration.
C1_SpeechWithinBuffer ==
    IsProcess => state.speechDuration <= state.bufferDuration

\* C5: every chunk given to a chunk listener, whether by a process call, by
\* stop() or by forceFlush(), has duration >= minChunkDuration.
C5_NoShortChunk ==
    \A i \in 1..Len(delivered) : delivered[i].duration >= config.minChunkDuration

\* forceFlush() delivered a chunk of a whole second.
C5_Witness ==
    /\ op = "forceFlush"
    /\ Len(delivered) = 1
    /\ delivered[1].duration >= 1000
    /\ delivered[1].duration >= config.minChunkDuration

\* C6: with minSpeechDuration = 1000, silenceDuration = 2000 and
\* minChunkDuration = 1000, a freshly started detector fed at a regular tick
\* through one entry point 1500 ms of samples above the threshold and then
\* 2000 ms of samples below it has emitted exactly one chunk, of duration
\* 3500 ms and speechRatio 1500/3500.
FeedComplete ==
    /\ feed.phase = "silence"
    /\ feed.lastSpeak - feed.first = 1500
    /\ feed.last - feed.lastSpeak = 2000
    /\ config.minSpeechDuration = 1000
    /\ config.silenceDuration = 2000
    /\ config.minChunkDuration = 1000

C6_UtteranceEmitsOneChunk ==
    FeedComplete =>
        /\ feed.chunks = 1
        /\ Len(delivered) = 1
        /\ delivered[1].duration = 3500
        /\ delivered[1].speechRatio = <<1500, 3500>>

\* C7: under continuous speech fed through one entry point, a chunk is emitted
\* at the first tick at which maxChunkDuration has elapsed since the first
\* speaking sample of the span.
C7_ForcedFlush == span.due => Len(delivered) = 1

\* C8: stop() with an open buffer emits exactly one chunk when bufferDuration >=
\* minChunkDuration and none when it is shorter, whatever silence was observed;
\* afterwards the status is idle.
C8_StopFlushes ==
    [][(Stop /\ OpenBuffer) =>
           /\ Len(delivered') =
                  IF state.bufferDuration >= config.minChunkDuration THEN 1 ELSE 0
           /\ state'.status = "idle"]_vars

\* stop() emitted the buffer of a speaker who had not paused.
C8_Witness ==
    /\ op = "stop"
    /\ Len(delivered) = 1
    /\ state.isSpeaking
    /\ state.status = "idle"

\* What the two entry points do apart: the statements of C1, C6 and C7 for
\* processAudio alone.
AudioOnly_C6 == (FeedComplete /\ feed.entry = "audio") => C6_UtteranceEmitsOneChunk
AudioOnly_C7 == (span.due /\ span.entry = "audio") => Len(delivered) = 1
VolumeNeverBuffers == op = "processVolume" /\ feed.entry = "volume" => delivered = <<>>

\* ----------------------------------------------- the key manager's claims
KeyById(id) == keys[IndexOfId(keys, id)]
AllExhausted == "All keys exhausted or unavailable"

\* C2: round-robin (shuffleMode off), n keys all eligible, no failures: the
\* getNextKey() calls made in a row return the keys in pool order, wrapping, so
\* any n of them return each key exactly once before any key repeats.
C2_RoundRobin ==
    LET n == Len(keys)
        Pos(id) == IndexOfId(keys, id)
    IN  ~shuffleMode =>
            /\ \A i \in 1..(Len(rotation) - 1) :
                   Pos(rotation[i + 1]) = (Pos(rotation[i]) % n) + 1
            /\ \A i, j \in 1..Len(rotation) :
                   (i <= n /\ j <= n /\ i # j) => rotation[i] # rotation[j]
            /\ Len(rotation) = n + 1 => rotation[n + 1] = rotation[1]

\* Three keys were each returned once and the first was returned again.
C2_Witness ==
    /\ ~shuffleMode
    /\ Len(keys) = 3
    /\ Len(rotation) = 4

\* A getNextKey() call that directly follows handleError(429, "rate limit") on
\* the active key, in a pool of at least two keys.
C3_Case ==
    /\ op = "getNextKey"
    /\ ret.prior.failed # NoKey
    /\ ret.prior.err = RateLimitError
    /\ ret.prior.wasActive
    /\ Len(keys) >= 2

C3_Outcome ==
    /\ KeyById(ret.prior.failed).rateLimitedUntil = clock + 60000
    /\ ret.key # NoKey
    /\ ret.key # ret.prior.failed
    /\ Available(KeyById(ret.key), clock)

\* C3 as stated: after handleError(429, "rate limit") on the active key in a
\* pool of at least 2 keys, the failed key's rateLimitedUntil is now + 60000 and
\* the next getNextKey() returns a different, eligible key.
C3_Original == C3_Case => C3_Outcome

\* C3 as amended: the same, provided some other key is eligible (not disabled
\* and not under an unexpired cooldown) when that getNextKey() runs.
C3_SwitchesWhenOtherEligible ==
    (/\ C3_Case
     /\ \E i \in Indices(keys) :
            keys[i].id # ret.prior.failed /\ Available(keys[i], clock))
        => C3_Outcome

C3_Witness ==
    /\ C3_Case
    /\ C3_Outcome
    /\ KeyById(ret.prior.failed).rateLimited

\* C4: handleError(401, ...) leaves the current key disabled, whatever its
\* failCount was, when no cooldown timestamp was ever set on it: the
\* refreshKeyStates() call of handleError's own selection does not undo it.
C4_AuthDisableSurvives ==
    (/\ op = "handleError"
     /\ ret.err = Error(401, FALSE, FALSE)
     /\ ret.failed # NoKey
     /\ ret.failed \notin everCooled)
        => KeyById(ret.failed).isDisabled

\* C9: once now >= rateLimitedUntil, a refreshKeyStates() call (the one of
\* getNextKey() included) leaves the key with rateLimited and rateLimitedUntil
\* cleared, failCount 0 and isDisabled false, and the key is a candidate again.
C9_ExpiryReenables ==
    op \in {"refreshKeyStates", "getNextKey"} =>
        \A i \in Indices(keys) :
            keys[i].id \in ret.expired =>
                /\ ~keys[i].rateLimited
                /\ keys[i].rateLimitedUntil = NoTime
                /\ keys[i].failCount = 0
                /\ ~keys[i].isDisabled
                /\ i \in AvailableIndices(Pool, clock)

\* refreshKeyStates() re-enabled a disabled key whose cooldown had elapsed.
C9_Witness ==
    /\ op = "refreshKeyStates"
    /\ \E i \in Indices(keys) :
           /\ keys[i].id \in ret.expired
           /\ keys[i].id \in ret.wasDisabled
           /\ keys[i].id \in everCooled
           /\ ~keys[i].isDisabled

\* handleError has returned and no key is eligible.
C10_Case ==
    /\ op = "handleError"
    /\ ret.failed # NoKey
    /\ \A i \in Indices(keys) : ~Available(keys[i], clock)

C10_Exhausted ==
    /\ ~ret.switched
    /\ ret.newKey = NoKey
    /\ ret.message = AllExhausted

C11_PrimaryNotAutoDisabled ==
    [][(HandleError /\ ~isAuthError(ret'.err)) =>
           \A i \in Indices(keys) :
               (keys[i].isPrimary /\ ~keys[i].isDisabled) => ~keys'[i].isDisabled]_vars

\* The primary has failed up to the disable threshold and is still enabled.
C11_Witness ==
    /\ op = "handleError"
    /\ ~isAuthError(ret.err)
    /\ ret.failed # NoKey
    /\ KeyById(ret.failed).isPrimary
    /\ KeyById(ret.failed).failCount >= MAX_FAIL_COUNT
    /\ ~KeyById(ret.failed).isDisabled

\* C12: when a handleError call whose error is not an auth error brings a
\* non-primary key's failCount to the disable threshold (as the third of three
\* server errors does), that key is disabled when handleError returns.
C12_ThresholdDisables ==
    (/\ op = "handleError"
     /\ ret.failed # NoKey
     /\ ret.atThreshold
     /\ ~isAuthError(ret.err)
     /\ ~KeyById(ret.failed).isPrimary)
        => KeyById(ret.failed).isDisabled

\* C13: in every state reached from an empty pool, a pool that is not empty
\* has exactly one key with isPrimary = true.
C13_OnePrimary ==
    Len(keys) > 0 => Cardinality({i \in Indices(keys) : keys[i].isPrimary}) = 1

\* The first key was removed from a pool of two: the second one is the primary.
C13_Witness ==
    /\ op = "removeKey"
    /\ Len(keys) = 1
    /\ keys[1].id = 2
    /\ keys[1].isPrimary

\* C14: in every reachable state in which some key of the pool is not
\* disabled, exactly one key has isActive = true and that key is not disabled
\* (it is the key selected last, or the first key added).
C14_OneActive ==
    (\E i \in Indices(keys) : ~keys[i].isDisabled) =>
        /\ Cardinality({i \in Indices(keys) : keys[i].isActive}) = 1
        /\ \A i \in Indices(keys) : keys[i].isActive => ~keys[i].isDisabled

\* C15: removeKey on the current primary makes the key that followed it in
\* pool order the primary; removeKey on the last remaining key leaves the pool
\* empty, and getNextKey() on an empty pool returns none.
C15_RemovePromotes ==
    [][/\ RemoveKey =>
              LET i == CHOOSE i \in Indices(keys) :
                           \A j \in Indices(keys') : keys'[j].id # keys[i].id
              IN  /\ Len(keys') = Len(keys) - 1
                  /\ (keys[i].isPrimary /\ Len(keys) > 1) =>
                         /\ i < Len(keys)
                         /\ keys'[i].id = keys[i + 1].id
                         /\ \A j \in Indices(keys') : keys'[j].isPrimary <=> j = i
       /\ (GetNextKey /\ keys = <<>>) => (ret'.key = NoKey /\ keys' = <<>>)]_vars

\* Both keys were removed and getNextKey() then returned none.
C15_Witness ==
    /\ op = "getNextKey"
    /\ nextId = 2
    /\ keys = <<>>
    /\ ret.key = NoKey

\* C16: every getNextKey() call that returns a key K found at pool index i
\* (0-based) leaves currentIndex = (i + 1) mod poolSize, K the only key with
\* isActive = true, and K.usageCount and totalCalls each one higher than before
\* the call, also when K is returned by the primary fallback.
C16_SelectionUpdates ==
    [][(GetNextKey /\ ret'.key # NoKey) =>
           LET i == IndexOfId(keys', ret'.key)
           IN  /\ currentIndex' = i % Len(keys')
               /\ \A j \in Indices(keys') : keys'[j].isActive <=> j = i
               /\ keys'[i].usageCount = keys[i].usageCount + 1
               /\ totalCalls' = totalCalls + 1]_vars

\* C17: getNextKey() returns none exactly when the pool is empty or when no
\* key is eligible and the primary is disabled; when no key is eligible and the
\* primary is not disabled it returns the primary; in every other case it
\* returns a key that is neither disabled nor under an unexpired cooldown.
C17_WhatGetNextKeyReturns ==
    op = "getNextKey" =>
        IF keys = <<>> THEN ret.key = NoKey
        ELSE IF \A i \in Indices(keys) : ~Available(keys[i], clock)
        THEN IF \E i \in Indices(keys) : keys[i].isPrimary /\ ~keys[i].isDisabled
             THEN ret.key # NoKey /\ KeyById(ret.key).isPrimary
             ELSE ret.key = NoKey
        ELSE /\ ret.key # NoKey
             /\ ~KeyById(ret.key).isDisabled
             /\ ~isRateLimited(KeyById(ret.key), clock)

\* getNextKey() passed over a key that is not eligible and returned the other.
C17_Witness ==
    /\ op = "getNextKey"
    /\ ret.key # NoKey
    /\ Available(KeyById(ret.key), clock)
    /\ \E i \in Indices(keys) : ~Available(keys[i], clock)

\* C18: getCurrentKey() is read-only: it leaves currentIndex, totalCalls and
\* every field of every key unchanged.
C18_GetCurrentKeyReadOnly ==
    [][GetCurrentKey =>
           /\ keys' = keys
           /\ currentIndex' = currentIndex
           /\ totalCalls' = totalCalls]_vars

\* C19: handleError applies exactly the first matching class, in the order
\* rate limit (429 or "rate limit": cooldown now + 60 s, failCount + 1), quota
\* ("quota": cooldown now + 3600 s, failCount + 1), auth (401/403: isDisabled,
\* failCount = 3), server (5xx: failCount + 1 only), and an error matching
\* none of them changes no health field; a key is disabled besides only by
\* the failCount threshold.  The fields are those handleError saves after the
\* classification; a cooldown it sets is still on the key when it returns.
C19_Cooled(until) ==
    /\ ret.saved.rateLimited
    /\ ret.saved.rateLimitedUntil = until
    /\ ret.saved.failCount = ret.before.failCount + 1
    /\ KeyById(ret.failed).rateLimited
    /\ KeyById(ret.failed).rateLimitedUntil = until

C19_NoCooldownChange ==
    /\ ret.saved.rateLimited = ret.before.rateLimited
    /\ ret.saved.rateLimitedUntil = ret.before.rateLimitedUntil

C19_DisabledByThresholdOnly ==
    ret.saved.isDisabled <=>
        \/ ret.before.isDisabled
        \/ ret.saved.failCount >= 3 /\ ~KeyById(ret.failed).isPrimary

C19_FirstMatchingClass ==
    (op = "handleError" /\ ret.failed # NoKey) =>
        IF ret.err.code = 429 \/ ret.err.rateLimitText
        THEN C19_Cooled(clock + 60000) /\ C19_DisabledByThresholdOnly
        ELSE IF ret.err.quotaText
        THEN C19_Cooled(clock + 3600000) /\ C19_DisabledByThresholdOnly
        ELSE IF ret.err.code \in {401, 403}
        THEN /\ ret.saved.isDisabled
             /\ ret.saved.failCount = 3
             /\ C19_NoCooldownChange
        ELSE IF ret.err.code >= 500
        THEN /\ ret.saved.failCount = ret.before.failCount + 1
             /\ C19_NoCooldownChange
             /\ C19_DisabledByThresholdOnly
        ELSE ret.saved = ret.before

\* A 403 that carries a quota message is a quota error: the long cooldown,
\* and the key stays enabled.
C19_Witness ==
    /\ op = "handleError"
    /\ ret.failed # NoKey
    /\ ret.err = Error(403, FALSE, TRUE)
    /\ ret.saved.rateLimitedUntil = clock + 3600000
    /\ ret.saved.failCount = ret.before.failCount + 1
    /\ ~ret.saved.isDisabled

\* C20: after a probe of getNextWorkingKeyFast failed with a 403 or a quota
\* message, and until the long cooldown it set has elapsed, the probed key is
\* not eligible: getNextKey() does not return it while another eligible key
\* exists, and a later getNextWorkingKeyFast does not put it among the keys to
\* probe.
C20_ProbeCooldownHolds ==
    \A i \in Indices(keys) :
        (/\ keys[i].cooldownUntil # NoTime
         /\ clock < keys[i].cooldownUntil
         /\ \E j \in Indices(keys) :
                /\ j # i
                /\ Available(keys[j], clock)
                /\ keys[j].cooldownUntil = NoTime)
            => /\ op = "getNextKey" => ret.key # keys[i].id
               /\ op = "probeStart" =>
                      \A n \in 1..Len(probe.list) : probe.list[n] # keys[i].id

\* C21: a failing getNextWorkingKeyFast reports "no keys configured" exactly
\* when the pool has no registered key, "all rate-limited" when keys exist but
\* none is eligible and a cooldown is pending, and "all failed" when at least
\* one key was probed and no probe succeeded.
C21_FailureOutcomes ==
    /\ (op = "probeStart" /\ probe.phase = "idle") =>
           /\ probe.message = "No API keys configured" <=> keys = <<>>
           /\ (/\ keys # <<>>
               /\ \E i \in Indices(keys) : isRateLimited(keys[i], clock))
                  => probe.message = "All keys rate-limited"
    /\ (op = "probeResult" /\ probe.phase = "idle" /\ probe.key = NoKey) =>
           probe.message = "All keys failed"

\* C22: a probe that times out is handled as a failed probe is: the key is not
\* activated, getNextWorkingKeyFast goes on to its next key (or returns "all
\* failed" after the last), and the failCount, rateLimited, rateLimitedUntil
\* and isDisabled of the key that timed out are unchanged.
C22_TimeoutIsFailure ==
    [][(ProbeResult /\ probe'.outcome = "timeout") =>
           LET id == probe.list[probe.i]
               index == IndexOfId(keys, id)
           IN  /\ probeResolved(Pool, id, "timeout", clock)
                      = probeResolved(Pool, id, "fail", clock)
               /\ currentIndex' = currentIndex
               /\ probe'.key = NoKey
               /\ IF probe.i < Len(probe.list)
                  THEN probe'.phase = "probing" /\ probe'.i = probe.i + 1
                  ELSE probe'.phase = "idle" /\ probe'.message = "All keys failed"
               /\ index # NoKey =>
                      /\ Len(keys') = Len(keys)
                      /\ Health(keys'[index]) = Health(keys[index])
                      /\ keys'[index].isActive = keys[index].isActive]_vars

\* The probe of the first of two keys timed out: the second is being probed,
\* and the health fields of the first are those of a key just added.
C22_Witness ==
    /\ op = "probeResult"
    /\ probe.outcome = "timeout"
    /\ probe.phase = "probing"
    /\ probe.i = 2
    /\ Len(keys) = 2
    /\ keys[1].id = probe.list[1]
    /\ Health(keys[1]) = NoHealth

\* C23: whenever a public operation that changed a key or the rotation state
\* has returned (a getNextWorkingKeyFast call returns when it stops probing),
\* the store holds the key list and the rotation counters that are in memory.
InMemory == Saved(Pool)
C23_Persisted ==
    [][(/\ InMemory' # InMemory
        /\ op' \in {"probeStart", "probeResult"} => probe'.phase = "idle")
           => stored' = InMemory']_vars

\* C24: every value a state listener receives from subscribe or from a
\* notification, in the detector and in the key manager, is a copy, so that a
\* listener writing to what it received changes no state of the manager.
C24_ListenersGetCopies ==
    [][(VadListenerWrites \/ KeyListenerWrites) =>
           /\ state' = state
           /\ InMemory' = InMemory]_vars

\* C25: in round-robin mode, along a sequence of getNextKey() calls, a key
\* that stays eligible is returned again within at most poolSize calls in a
\* row (so is a key whose cooldown has elapsed, from then on): no eligible key
\* is passed over by poolSize calls in a row.
C25_NoStarvation ==
    \A i \in 1..Len(waiting) : waiting[i] < Len(keys)

\* C26: each emission increments chunksSent by exactly 1 and calls the chunk
\* listeners exactly once, with a chunk built from the values before the reset
\* (speechRatio = speechDuration / max(1, bufferDuration)); when the emitting
\* call returns, speechDuration, silenceDuration and bufferDuration are 0 and
\* the sample accumulator is empty.  The values before the reset are those
\* the process call has just computed, or those stop() and forceFlush() find.
EmitsFrom(b) ==
    /\ Len(delivered') = 1
    /\ delivered'[1].startTime = b.bufferStartTime
    /\ delivered'[1].duration = b.state.bufferDuration
    /\ delivered'[1].speechRatio =
           <<b.state.speechDuration, Max(1, b.state.bufferDuration)>>
    /\ delivered'[1].samples = b.audioBuffer
    /\ state'.chunksSent = state.chunksSent + 1
    /\ state'.speechDuration = 0
    /\ state'.silenceDuration = 0
    /\ state'.bufferDuration = 0
    /\ audioBuffer' = 0

C26_Emission ==
    [][/\ ((Stop \/ ForceFlush) /\ delivered' # <<>>) => EmitsFrom(Manager)
       /\ (ProcessAudio /\ delivered' # <<>>) =>
              \E samples \in Windows :
                  EmitsFrom(processAudioBody(Manager, samples, clock))
       /\ (ProcessVolume /\ delivered' # <<>>) =>
              \E volume \in Volumes :
                  EmitsFrom(processVolumeBody(Manager, volume, clock))]_vars

\* A process call emitted the first chunk, of speech and silence both, and
\* left the buffer cleared.
C26_Witness ==
    /\ op = "processAudio"
    /\ Len(delivered) = 1
    /\ delivered[1].speechRatio[1] > 0
    /\ delivered[1].speechRatio[1] < delivered[1].speechRatio[2]
    /\ state.chunksSent = 1
    /\ state.speechDuration = 0
    /\ state.bufferDuration = 0
    /\ audioBuffer = 0

\* C27: in every reachable state of the detector, bufferDuration = 0 if and
\* only if no span is accumulating: the sample accumulator is empty and no
\* speaking sample was seen since the last emission or reset.
C27_BufferZeroIffIdle ==
    state.bufferDuration = 0 <=> (audioBuffer = 0 /\ span.first = 0)

\* C28: silence alone never starts a buffer: a silent sample processed with no
\* open buffer leaves bufferDuration = 0 and the sample accumulator empty and
\* emits no chunk, however many came before it; a buffer opens only in a
\* process call on a speaking sample.
SilentWithNoBuffer ==
    (ProcessAudio \/ ProcessVolume) /\ ~OpenBuffer /\ ~state'.isSpeaking

OpensOnSpeechOnly ==
    (~OpenBuffer /\ (audioBuffer' > 0 \/ state'.bufferDuration > 0)) =>
        /\ op' \in {"processAudio", "processVolume"}
        /\ state'.isSpeaking

C28_Original ==
    [][/\ SilentWithNoBuffer =>
              /\ state'.bufferDuration = 0
              /\ audioBuffer' = 0
              /\ delivered' = <<>>
       /\ OpensOnSpeechOnly]_vars

\* C28 as it holds: the silent sample emits no chunk where minChunkDuration >
\* 0; where minChunkDuration = 0 it may emit one, which is empty.
C28_SilenceStartsNothing ==
    [][/\ SilentWithNoBuffer =>
              /\ state'.bufferDuration = 0
              /\ audioBuffer' = 0
              /\ config.minChunkDuration > 0 => delivered' = <<>>
              /\ \A i \in 1..Len(delivered') :
                     delivered'[i].duration = 0 /\ delivered'[i].samples = 0
       /\ OpensOnSpeechOnly]_vars

\* Silent windows were processed for a second or more since the start, and
\* no buffer is open.
C28_Witness ==
    /\ op = "processAudio"
    /\ config.minChunkDuration > 0
    /\ ~state.isSpeaking
    /\ span.first = 0
    /\ state.totalSilenceTime >= 1000
    /\ state.silenceDuration >= 1000
    /\ state.totalSpeechTime = 0
    /\ state.bufferDuration = 0
    /\ audioBuffer = 0
    /\ delivered = <<>>

\* C29: every chunk handed to the chunk listeners has duration = endTime -
\* startTime, also one that stop() or forceFlush() emits at a clock time
\* later than the last process call.
C29_DurationIsSpan ==
    \A i \in 1..Len(delivered) :
        delivered[i].duration = delivered[i].endTime - delivered[i].startTime

\* C30: a process call with malformed input (the clock stepped back since the
\* last call, so the elapsed time is negative; or the amplitude is NaN: a NaN
\* volume, an empty window) is handled as a silent sample: isSpeaking is
\* false, none of the five durations is negative afterwards, the two totals do
\* not decrease, and unless the call emits a chunk (which clears them) neither
\* do speechDuration, silenceDuration and bufferDuration.
NegativeElapsed == lastUpdateTime # 0 /\ clock < lastUpdateTime

MalformedProcess ==
    \/ (SkewProcessAudio \/ SkewProcessVolume) /\ NegativeElapsed
    \/ ProcessVolumeOf(NaN)
    \/ ProcessAudioOf(<<>>, SkewWindows)

Durations ==
    <<state.speechDuration, state.silenceDuration, state.bufferDuration,
      state.totalSpeechTime, state.totalSilenceTime>>

C30_MalformedIsSilence ==
    [][MalformedProcess =>
           /\ ~state'.isSpeaking
           /\ \A i \in 1..5 : Durations'[i] >= 0
           /\ \A i \in 4..5 : Durations'[i] >= Durations[i]
           /\ delivered' = <<>> => \A i \in 1..3 : Durations'[i] >= Durations[i]]_vars

\* C31: maskKey returns, for a key text of more than 8 characters whatever its
\* length, its first 4 characters, 8 bullets and its last 4 characters; for a
\* key text of 8 characters or fewer it returns the 8 bullets and none of the
\* characters given.
C31_MaskKey ==
    op = "maskKey" =>
        IF Len(ret.given) > 8
        THEN /\ Len(ret.masked) = 16
             /\ SubSeq(ret.masked, 1, 4) = SubSeq(ret.given, 1, 4)
             /\ SubSeq(ret.masked, 5, 12) = Bullets
             /\ SubSeq(ret.masked, 13, 16) =
                    SubSeq(ret.given, Len(ret.given) - 3, Len(ret.given))
        ELSE /\ ret.masked = Bullets
             /\ \A i \in 1..Len(ret.masked) : ret.masked[i] \notin KeyChars

\* A key text of the greatest length, whose two ends differ, was masked.
C31_Witness ==
    /\ op = "maskKey"
    /\ Len(ret.given) = MaxKeyLen
    /\ ret.given[1] # ret.given[MaxKeyLen]
    /\ ret.masked[1] = ret.given[1]
    /\ ret.masked[16] = ret.given[MaxKeyLen]

\* C32: processAudio and processVolume are the same state machine: from the
\* state start() leaves, every stream of ticks (the same tick times, the same
\* classification of each tick as speech or silence) gives through either
\* entry point the same isSpeaking, speechDuration, silenceDuration and
\* bufferDuration after every tick, and chunks of the same durations at the
\* same ticks.
TickStreams ==
    UNION {[1..n -> [delta : Deltas, speaking : BOOLEAN]] : n \in 1..EquivTicks}

C32_SameMachine ==
    op = "start" =>
        \A ticks \in TickStreams :
            SeenOver(Manager, "audio", ticks, clock)
                = SeenOver(Manager, "volume", ticks, clock)

\* C33: currentIndex is a valid position in every reachable state, also when
\* removeKey or addKey ran while a getNextWorkingKeyFast probe was awaited: 0
\* in an empty pool, from 0 to length - 1 otherwise; and the key that
\* getNextWorkingKeyFast returns as working is in the pool when it returns.
ValidIndex ==
    IF keys = <<>> THEN currentIndex = 0
    ELSE currentIndex >= 0 /\ currentIndex < Len(keys)

WorkingKeyInPool ==
    (op = "probeResult" /\ probe.phase = "idle" /\ probe.key # NoKey) =>
        IndexOfId(keys, probe.key) # NoKey

C33_ValidIndex == ValidIndex /\ WorkingKeyInPool

\* C34: forceFlush() applies the flush rule of stop(): called with an open
\* buffer it emits a chunk exactly when stop() would; when bufferDuration >=
\* minChunkDuration it emits one chunk and clears the buffer; when the buffer
\* is shorter it emits nothing and leaves speechDuration, silenceDuration,
\* bufferDuration and the sample accumulator as they were.
C34_ForceFlushRule ==
    [][(ForceFlush /\ OpenBuffer) =>
           /\ Len(delivered') = Len(stop(Manager, clock).chunks)
           /\ IF state.bufferDuration >= config.minChunkDuration
              THEN /\ Len(delivered') = 1
                   /\ state'.chunksSent = state.chunksSent + 1
                   /\ audioBuffer' = 0
                   /\ state'.bufferDuration = 0
                   /\ state'.speechDuration = 0
                   /\ state'.silenceDuration = 0
              ELSE /\ delivered' = <<>>
                   /\ state'.chunksSent = state.chunksSent
                   /\ audioBuffer' = audioBuffer
                   /\ state'.bufferDuration = state.bufferDuration
                   /\ state'.speechDuration = state.speechDuration
                   /\ state'.silenceDuration = state.silenceDuration]_vars

\* forceFlush() was called on a buffer shorter than minChunkDuration, which
\* is still open.
C34_Witness ==
    /\ op = "forceFlush"
    /\ delivered = <<>>
    /\ audioBuffer > 1
    /\ state.bufferDuration > 0
    /\ state.bufferDuration < config.minChunkDuration
    /\ state.speechDuration > 0

\* C35: the migration of loadState loses no credential: at every point of
\* loadState, also after the page was reloaded between two storage operations
\* and after a storage write failed, every credential the old-format record
\* held is in the old-format record or in the new-format record of the store.
C35_NoCredentialLost ==
    boot.original \subseteq CredentialsOf(Migrated(boot.legacy))
                              \cup CredentialsOf(stored.keys)

\* C36: a handleError or reportSuccess call that directly follows a getNextKey
\* call which returned a key changes the health fields (rateLimited,
\* rateLimitedUntil, failCount, isDisabled) of no key but the one returned,
\* also when the primary fallback returned it.
AfterKeyReturned == op = "getNextKey" /\ ret.key # NoKey /\ ~ret.threw

C36_MarksReturnedKey ==
    [][(AfterKeyReturned /\ (HandleError \/ ReportSuccess)) =>
           \A i \in 1..Len(keys) :
               keys[i].id # ret.key => Health(keys'[i]) = Health(keys[i])]_vars

\* C37: when refreshKeyStates() returns, hence also when getNextKey() or
\* handleError returns, every disabled key has a cooldown that has not
\* expired: rateLimitedUntil or cooldownUntil is set and lies in the future.
PendingCooldown(k, now) ==
    \/ k.rateLimitedUntil # NoTime /\ now < k.rateLimitedUntil
    \/ k.cooldownUntil # NoTime /\ now < k.cooldownUntil

DisabledOnlyUnderCooldown ==
    \A i \in 1..Len(keys) : keys[i].isDisabled => PendingCooldown(keys[i], clock)

C39_RatioInUnitRange ==
    \A i \in 1..Len(delivered) :
        /\ 0 <= delivered[i].speechRatio[1]
        /\ delivered[i].speechRatio[1] <= delivered[i].speechRatio[2]

\* The detector with state listeners subscribed, which only read what they
\* are given.
NotifyInit == VadInitWith(ShortConfig, FeedNone)

NotifyNext ==
    \/ AdvanceClock
    \/ ProcessAudio
    \/ ProcessVolume
    \/ Stop
    \/ Start
    \/ ForceFlush
    \/ VadSubscribe

NotifySpec == NotifyInit /\ [][NotifyNext]_vars

\* C40: a state listener is notified exactly once per process call, after the
\* emit decision of that call: the snapshot it receives after an emission
\* already shows the cleared buffer and the incremented chunksSent, and no
\* state listener ever receives a snapshot whose status is 'sending' or
\* 'processing'.
C40_NotifiedAfterEmit ==
    [][/\ (ProcessAudio \/ ProcessVolume) =>
              /\ Len(snapshots') = 1
              /\ snapshots'[1] = state'
              /\ delivered' # <<>> =>
                     /\ snapshots'[1].bufferDuration = 0
                     /\ snapshots'[1].speechDuration = 0
                     /\ snapshots'[1].silenceDuration = 0
                     /\ snapshots'[1].chunksSent = state.chunksSent + 1
       /\ (Stop \/ ForceFlush \/ Start) => snapshots' = <<>>
       /\ \A i \in 1..Len(snapshots') :
              snapshots'[i].status \notin {"sending", "processing"}]_vars

\* A subscribed state listener was notified by a process call that emitted:
\* its snapshot has the buffer cleared and the chunk counted.
C40_Witness ==
    /\ IsProcess
    /\ vadListener # {}
    /\ Len(delivered) = 1
    /\ Len(snapshots) = 1
    /\ snapshots[1].chunksSent = 1
    /\ snapshots[1].bufferDuration = 0
    /\ snapshots[1].status = "idle"

=============================================================================
